---------------------------- MODULE Spec2Model ----------------------------
(***************************************************************************)
(* A model of plasmotrack-sockets: the real-time event gateway             *)
(* (app/microspat/events_v2/base.py) and the project orchestration of the  *)
(* persistence layer (app/plasmomapper/models.py).                         *)
(*                                                                         *)
(* The code is Python 2 (models.py uses print statements), so a text value *)
(* is either a byte string (str) or a unicode string; JSON payloads        *)
(* deliver unicode.                                                        *)
(***************************************************************************)
EXTENDS Integers, Sequences, FiniteSets, TLC

(***************************************************************************)
(* Bounds of the model.                                                    *)
(***************************************************************************)
\* The longest id list a get request carries.
MaxIds == 1000
\* The longest list of mixed-type id values a get request carries.
MaxMixedLen == 2
\* The number of handler greenlets sharing the cooperative event loop.
NumGreenlets == 2

(***************************************************************************)
(* Program constants.                                                      *)
(***************************************************************************)
\* base_get(model, schema, namespace, subset_size=384)
subset_size == 384

Min(a, b) == IF a < b THEN a ELSE b

(***************************************************************************)
(* JSON values of a request payload, tagged with their Python type.        *)
(***************************************************************************)
IntV(n) == [t |-> "int", n |-> n]
StrV(s) == [t |-> "str", s |-> s]
UnicodeV(s) == [t |-> "unicode", s |-> s]
\* A float w.f (w its whole part, truncated toward zero).
FloatV(w, f) == [t |-> "float", w |-> w, f |-> f]
NoneV == [t |-> "NoneType"]
DictV == [t |-> "dict"]
ListV(l) == [t |-> "list", l |-> l]

\* A payload with, or without, the "id" key.
WithId(v) == [has_id |-> TRUE, id |-> v]
NoId == [has_id |-> FALSE]

(***************************************************************************)
(* Python's int(): decimal text is parsed character by character.          *)
(***************************************************************************)
Digits == {"0", "1", "2", "3", "4", "5", "6", "7", "8", "9"}

DigitVal(c) ==
    CASE c = "0" -> 0 [] c = "1" -> 1 [] c = "2" -> 2 [] c = "3" -> 3
      [] c = "4" -> 4 [] c = "5" -> 5 [] c = "6" -> 6 [] c = "7" -> 7
      [] c = "8" -> 8 [] c = "9" -> 9

\* The value of a sequence of digit characters.
RECURSIVE DecValue(_)
DecValue(s) ==
    IF s = << >> THEN 0
    ELSE 10 * DecValue(SubSeq(s, 1, Len(s) - 1)) + DigitVal(s[Len(s)])

AllDigits(s) == Len(s) > 0 /\ \A k \in 1..Len(s) : s[k] \in Digits

\* int(text): an optional sign, then one or more digits; anything else is a
\* ValueError.
ParsesAsInt(s) ==
    \/ AllDigits(s)
    \/ Len(s) > 1 /\ s[1] \in {"-", "+"} /\ AllDigits(Tail(s))

ParseInt(s) ==
    IF s[1] = "-" THEN 0 - DecValue(Tail(s))
    ELSE IF s[1] = "+" THEN DecValue(Tail(s))
    ELSE DecValue(s)

Ok(n) == [ok |-> TRUE, n |-> n]
Err(e) == [ok |-> FALSE, exc |-> e]

\* int(v) for a value of the payload.
python_int(v) ==
    CASE v.t = "int" -> Ok(v.n)
      [] v.t \in {"str", "unicode"} ->
            IF ParsesAsInt(v.s) THEN Ok(ParseInt(v.s)) ELSE Err("ValueError")
      [] v.t = "float" -> Ok(v.w)
      [] OTHER -> Err("TypeError")

(***************************************************************************)
(* extract_ids(json): the ids of a get request, or the exception raised.   *)
(***************************************************************************)
Extracted(ids) == [exc |-> "none", ids |-> ids]
Raised(e, m) == [exc |-> e, msg |-> m]

\* list(map(int, ids)): the first element int() rejects decides the exception;
\* only ValueError is caught and turned into GetException.
MapInt(l) ==
    LET bad == {k \in 1..Len(l) : ~python_int(l[k]).ok}
    IN  IF bad = {} THEN Extracted([k \in 1..Len(l) |-> python_int(l[k]).n])
        ELSE LET first == CHOOSE k \in bad : \A j \in bad : k <= j
             IN  IF python_int(l[first]).exc = "ValueError"
                 THEN Raised("GetException", "Field id not valid")
                 ELSE Raised(python_int(l[first]).exc, "")

extract_ids(json) ==
    IF ~json.has_id THEN Raised("KeyError", "")
    ELSE LET ids == json.id
         IN  IF ids.t = "list" THEN MapInt(ids.l)
             ELSE IF ids.t \in {"int", "str"}
                  THEN MapInt(<<ids>>)
                  ELSE Raised("GetException", "Field id not valid")

(***************************************************************************)
(* subset(l, subset_size): the slice the generator yields at offset i.     *)
(***************************************************************************)
subset_slice_overlap(l, i, size) == SubSeq(l, i + 1, Min(i + size + 1, Len(l)))
subset_slice(l, i, size) == SubSeq(l, i + 1, Min(i + size, Len(l)))

\* The ids of the rows the table holds: a requested id may not be found.
TableIds == {n \in 1..MaxIds : n % 5 # 0}

\* model.query.filter(model.id.in_(id_subset)).all(), serialized.
query_rows(id_subset) == {id_subset[k] : k \in 1..Len(id_subset)} \cap TableIds

(***************************************************************************)
(* State of the gateway: one record per handler greenlet, and the greenlet *)
(* that holds the single thread (0: the hub).                              *)
(***************************************************************************)
VARIABLES gl, running

gatewayVars == <<gl, running>>

Greenlets == 1..NumGreenlets

Ops == {"get", "list", "emit_list", "emit_get", "emit_task_success",
        "emit_task_failure"}

IdleGreenlet ==
    [op |-> "none", json |-> NoId, pc |-> "idle", ids |-> << >>, i |-> 0,
     steps |-> << >>, emitted |-> << >>, exc |-> "none", msg |-> "",
     response |-> "none"]

Finished(g) == g.pc \in {"idle", "done", "raised"}

InitGateway ==
    /\ gl = [h \in Greenlets |-> IdleGreenlet]
    /\ running = 0

(***************************************************************************)
(* Request payloads.                                                       *)
(***************************************************************************)
\* Single id values of every type int() and isinstance tell apart.
MixedValues ==
    {IntV(3), StrV(<<"1", "2">>), StrV(<<"1", "x">>), StrV(<< >>),
     StrV(<<"-", "2">>), UnicodeV(<<"7">>), FloatV(2, 5), NoneV}

MixedLists ==
    UNION {[1..n -> MixedValues] : n \in 0..MaxMixedLen}

MixedPayloads ==
    {NoId} \cup {WithId(v) : v \in MixedValues \cup {DictV}}
           \cup {WithId(ListV(l)) : l \in MixedLists}
           \cup {WithId(ListV(<<ListV(<<IntV(3)>>)>>))}

\* Long lists of integer ids: distinct and descending, or repeating.
LongList(n, pattern) ==
    IF pattern = "descending" THEN [k \in 1..n |-> IntV(n + 1 - k)]
    ELSE [k \in 1..n |-> IntV(1 + (k % 3))]

LongPayloads ==
    {WithId(ListV(LongList(n, p))) : n \in 0..MaxIds,
                                    p \in {"descending", "repeating"}}

\* The payloads of the concurrent gateway: the mixed ones and lists that take
\* one, two and three chunks.
ChunkedPayloads ==
    {WithId(ListV(LongList(n, "descending"))) :
        n \in {1, subset_size + 1, 2 * subset_size + 1}}

(***************************************************************************)
(* The scheduler: the hub dispatches a request to a finished greenlet, and *)
(* switches to a ready greenlet; a greenlet keeps the thread until it      *)
(* yields, returns or raises. Every event is handled in a greenlet of its  *)
(* own.                                                                    *)
(***************************************************************************)
Dispatch(h, op, json) ==
    /\ running = 0
    /\ gl[h].pc = "idle"
    /\ gl' = [gl EXCEPT ![h] = [IdleGreenlet EXCEPT !.op = op, !.json = json,
                                                    !.pc = "start"]]
    /\ UNCHANGED running

\* A greenlet that returned or raised is dead; its slot serves the next event.
Retire(h) ==
    /\ running = 0
    /\ gl[h].pc \in {"done", "raised"}
    /\ gl' = [gl EXCEPT ![h] = IdleGreenlet]
    /\ UNCHANGED running

Switch(h) ==
    /\ running = 0
    /\ ~Finished(gl[h])
    /\ running' = h
    /\ UNCHANGED gl

Event(name, ids) == [event |-> name, ids |-> ids, rows |-> query_rows(ids)]

\* socketio.emit(...)
Publish(g, name, ids) ==
    [g EXCEPT !.emitted = Append(@, Event(name, ids)),
              !.steps = Append(@, "publish")]

\* get_fn, line 53: ids = extract_ids(json); an exception leaves the handler.
GetExtract(h) ==
    /\ running = h
    /\ gl[h].op = "get" /\ gl[h].pc = "start"
    /\ LET r == extract_ids(gl[h].json)
       IN  IF r.exc = "none"
           THEN /\ gl' = [gl EXCEPT ![h].ids = r.ids, ![h].i = 0,
                                    ![h].pc = "loop"]
                /\ UNCHANGED running
           ELSE /\ gl' = [gl EXCEPT ![h].exc = r.exc, ![h].msg = r.msg,
                                    ![h].pc = "raised",
                                    ![h].steps = Append(@, "raise")]
                /\ running' = 0

\* get_fn, lines 54-60: the next id_subset of the generator is queried, dumped
\* and published.
GetEmit(h) ==
    /\ running = h
    /\ gl[h].op = "get" /\ gl[h].pc = "loop"
    /\ gl[h].i < Len(gl[h].ids)
    /\ gl' = [gl EXCEPT ![h] =
                [Publish(gl[h], "get", subset_slice(gl[h].ids, gl[h].i, subset_size))
                    EXCEPT !.pc = "sleep"]]
    /\ UNCHANGED running

\* get_fn, line 61: eventlet.sleep() hands the thread to the hub; on resuming
\* the generator advances (i += subset_size).
GetSleep(h) ==
    /\ running = h
    /\ gl[h].op = "get" /\ gl[h].pc = "sleep"
    /\ gl' = [gl EXCEPT ![h].steps = Append(@, "yield"),
                        ![h].i = @ + subset_size,
                        ![h].pc = "loop"]
    /\ running' = 0

\* get_fn: the generator is exhausted and the handler returns.
GetReturn(h) ==
    /\ running = h
    /\ gl[h].op = "get" /\ gl[h].pc = "loop"
    /\ gl[h].i >= Len(gl[h].ids)
    /\ gl' = [gl EXCEPT ![h].steps = Append(@, "return"), ![h].pc = "done"]
    /\ running' = 0

\* list_fn, lines 66-77: query, dump, publish, return (no eventlet.sleep()).
ListFn(h) ==
    /\ running = h
    /\ gl[h].op = "list" /\ gl[h].pc = "start"
    /\ gl' = [gl EXCEPT ![h] =
                [Publish(gl[h], "list", << >>) EXCEPT
                    !.steps = Append(@, "return"), !.pc = "done"]]
    /\ running' = 0

\* emit_task_failure / emit_task_success: publish and return.
EmitTask(h) ==
    /\ running = h
    /\ gl[h].op \in {"emit_task_success", "emit_task_failure"}
    /\ gl[h].pc = "start"
    /\ gl' = [gl EXCEPT ![h] =
                [Publish(gl[h], gl[h].op, << >>) EXCEPT
                    !.steps = Append(@, "return"), !.pc = "done"]]
    /\ running' = 0

\* emit_list / emit_get, first line: publish.
EmitPublish(h) ==
    /\ running = h
    /\ gl[h].op \in {"emit_list", "emit_get"} /\ gl[h].pc = "start"
    /\ gl' = [gl EXCEPT ![h] =
                [Publish(gl[h], IF gl[h].op = "emit_list" THEN "list" ELSE "get",
                         << >>) EXCEPT !.pc = "sleep"]]
    /\ UNCHANGED running

\* emit_list / emit_get, second line: eventlet.sleep().
EmitSleep(h) ==
    /\ running = h
    /\ gl[h].op \in {"emit_list", "emit_get"} /\ gl[h].pc = "sleep"
    /\ gl' = [gl EXCEPT ![h].steps = Append(@, "yield"), ![h].pc = "resumed"]
    /\ running' = 0

\* emit_list / emit_get: the function returns once the hub resumes it.
EmitReturn(h) ==
    /\ running = h
    /\ gl[h].op \in {"emit_list", "emit_get"} /\ gl[h].pc = "resumed"
    /\ gl' = [gl EXCEPT ![h].steps = Append(@, "return"), ![h].pc = "done"]
    /\ running' = 0


(***************************************************************************)
(* The persistence layer: one project, its per-locus parameters and its    *)
(* channel annotations.                                                    *)
(***************************************************************************)
\* The number of channels of the plate.
NumChannels == 2
\* The longest channel id list of one add_channels request.
MaxBatch == 2

Channels == 1..NumChannels
\* Locus ids; 0 stands for None (no locus assigned).
Loci == {1, 2, 3}
\* The loci of the project's LocusSet: locus 3 is outside it.
ProjectLoci == {1, 2}

\* Column defaults of PeakScanner and ProjectLocusParams.
DefaultArgrelmaxWindow == 6
DefaultMaximaWindow == 10
DefaultMinPeakHeight == 150
DefaultMaxPeakHeight == 40000
DefaultMinPeakHeightRatio == 0
DefaultMaxBleedthrough == 4
DefaultMaxCrosstalk == 4
DefaultMinPeakDistance == 2

\* Values a client sets the parameters to (ratios in percent).
AltParams ==
    [argrelmax_window |-> 1, maxima_window |-> 5, min_peak_height |-> 250,
     min_peak_height_ratio |-> 30]

\* The keys of scanning_parameters and of filter_parameters the model tracks.
ScanningParams == {"argrelmax_window", "maxima_window"}
FilterParams == {"min_peak_height", "min_peak_height_ratio"}

\* The column attributes of a ProjectLocusParams row, in mapper order;
\* variant_field stands for the columns a subclass adds.
AttrOrder ==
    <<"locus_id", "argrelmax_window", "maxima_window", "min_peak_height",
      "min_peak_height_ratio", "scanning_parameters_stale",
      "filter_parameters_stale", "variant_field">>

\* A row as Project.__init__ creates it: both flags default to true.
NewLocusParams(l) ==
    [locus_id |-> l,
     argrelmax_window |-> DefaultArgrelmaxWindow,
     maxima_window |-> DefaultMaximaWindow,
     min_peak_height |-> DefaultMinPeakHeight,
     min_peak_height_ratio |-> DefaultMinPeakHeightRatio,
     scanning_parameters_stale |-> TRUE,
     filter_parameters_stale |-> TRUE,
     variant_field |-> 0]

(***************************************************************************)
(* params_changed(target, params): the attribute history of the row is the *)
(* difference between its committed values (old) and its current ones.     *)
(***************************************************************************)
RECURSIVE params_changed_loop(_, _, _, _)
params_changed_loop(old, new, params, k) ==
    IF k > Len(AttrOrder) THEN FALSE
    ELSE IF AttrOrder[k] \notin params
         THEN params_changed_loop(old, new, params, k + 1)
         ELSE IF old[AttrOrder[k]] # new[AttrOrder[k]] THEN TRUE
              ELSE params_changed_loop(old, new, params, k + 1)

\* A slip: the loop's else branch inside the loop, so that the first tracked
\* attribute decides.
RECURSIVE params_changed_first(_, _, _, _)
params_changed_first(old, new, params, k) ==
    IF k > Len(AttrOrder) THEN FALSE
    ELSE IF AttrOrder[k] \notin params
         THEN params_changed_first(old, new, params, k + 1)
         ELSE old[AttrOrder[k]] # new[AttrOrder[k]]

params_changed_else_in_loop(old, new, params) ==
    IF old = new THEN FALSE ELSE params_changed_first(old, new, params, 1)

params_changed(old, new, params) ==
    IF old = new THEN FALSE ELSE params_changed_loop(old, new, params, 1)

\* ProjectLocusParams.stale_parameters, the before_update listener.
stale_parameters(old, new) ==
    LET f == IF params_changed(old, new, FilterParams)
             THEN [new EXCEPT !.filter_parameters_stale = TRUE] ELSE new
    IN  IF params_changed(old, new, ScanningParams)
        THEN [f EXCEPT !.scanning_parameters_stale = TRUE] ELSE f

\* A flush: the listener runs on every row of the session that is dirty.
flush_params(old, new) ==
    [l \in DOMAIN new |->
        IF old[l] = new[l] THEN new[l] ELSE stale_parameters(old[l], new[l])]

(***************************************************************************)
(* Channels, wells and traces.                                             *)
(***************************************************************************)
\* channel.well.base_sizes is non-empty: wells are immutable after ingestion.
WellSized(c) == c % 2 = 1

\* The raw trace of a channel (channel.data), by scan index.
Trace == <<0, 200, 120, 900, 0, 160, 0, 400, 0>>

\* well.base_sizes of a sized well, by scan index.
BaseSize(i) == 100 + 10 * i

LocusMinBaseLength(l) == IF l = 2 THEN 150 ELSE 100
LocusMaxBaseLength(l) == 200

NoneList == [none |-> TRUE, l |-> << >>]
SomeList(l) == [none |-> FALSE, l |-> l]

\* ProjectChannelAnnotations(): annotated_peaks defaults to [], peak_indices
\* to NULL.
NewAnnotation(channel_id) ==
    [channel_id |-> channel_id, annotated_peaks |-> << >>,
     peak_indices |-> NoneList]

\* The elements of a sequence at the positions kept, in order.
RECURSIVE SelectSeqIdx(_, _)
SelectSeqIdx(s, keep) ==
    IF s = << >> THEN << >>
    ELSE IF Len(s) \in keep
         THEN Append(SelectSeqIdx(SubSeq(s, 1, Len(s) - 1), keep), s[Len(s)])
         ELSE SelectSeqIdx(SubSeq(s, 1, Len(s) - 1), keep)

\* The indices of a set, ascending.
RECURSIVE SortedSeq(_)
SortedSeq(S) ==
    IF S = {} THEN << >>
    ELSE <<CHOOSE x \in S : \A y \in S : x <= y>>
            \o SortedSeq(S \ {CHOOSE x \in S : \A y \in S : x <= y})

\* channel.identify_peak_indices(scanning_params), relmax: the scan indices
\* strictly above every neighbour within argrelmax_window.
identify_peak_indices(scanning_params) ==
    SortedSeq({i \in 1..Len(Trace) :
        \A j \in 1..Len(Trace) :
            (j # i /\ j - i <= scanning_params.argrelmax_window
                   /\ i - j <= scanning_params.argrelmax_window)
            => Trace[i] > Trace[j]})

RECURSIVE SumHeights(_)
SumHeights(peaks) ==
    IF peaks = << >> THEN 0
    ELSE peaks[Len(peaks)].peak_height
            + SumHeights(SubSeq(peaks, 1, Len(peaks) - 1))

MaxOf(S) == CHOOSE x \in S : \A y \in S : y <= x

\* annotate_base_sizes, annotate_peak_heights, annotate_bleedthrough,
\* annotate_crosstalk, annotate_peak_area: the peaks at the indices, with the
\* values read off the well and the trace. No other dye or capillary bleeds
\* into the trace.
annotate_peaks(indices) ==
    [k \in 1..Len(indices) |->
        [peak_index |-> indices[k],
         base_size |-> BaseSize(indices[k]),
         peak_height |-> Trace[indices[k]],
         bleedthrough_ratio |-> 0,
         crosstalk_ratio |-> 0,
         peak_area |-> Trace[indices[k]],
         relative_peak_height |-> 0,
         relative_peak_area |-> 0]]

\* The filters of peak_annotator.PeakFilters, each applied to the peaks.
base_size_filter(peaks, min_size, max_size) ==
    SelectSeqIdx(peaks, {k \in 1..Len(peaks) :
        peaks[k].base_size >= min_size /\ peaks[k].base_size <= max_size})

peak_height_filter(peaks, min_height, max_height) ==
    SelectSeqIdx(peaks, {k \in 1..Len(peaks) :
        peaks[k].peak_height >= min_height /\ peaks[k].peak_height <= max_height})

bleedthrough_filter(peaks, max_bleedthrough_ratio) ==
    SelectSeqIdx(peaks, {k \in 1..Len(peaks) :
        peaks[k].bleedthrough_ratio <= max_bleedthrough_ratio})

crosstalk_filter(peaks, max_crosstalk_ratio) ==
    SelectSeqIdx(peaks, {k \in 1..Len(peaks) :
        peaks[k].crosstalk_ratio <= max_crosstalk_ratio})

\* Of peaks closer than min_peak_distance the tallest stays.
peak_proximity_filter(peaks, min_peak_distance) ==
    SelectSeqIdx(peaks, {k \in 1..Len(peaks) :
        \A j \in 1..Len(peaks) :
            \/ j = k
            \/ peaks[j].base_size - peaks[k].base_size >= min_peak_distance
            \/ peaks[k].base_size - peaks[j].base_size >= min_peak_distance
            \/ peaks[j].peak_height < peaks[k].peak_height})

relative_peak_height_filter(peaks, min_relative_peak_height) ==
    SelectSeqIdx(peaks, {k \in 1..Len(peaks) :
        peaks[k].relative_peak_height >= min_relative_peak_height})

\* channel.pre_annotate_and_filter(filter_params); max_peak_height,
\* max_bleedthrough, max_crosstalk and min_peak_distance of the row stay at
\* their column defaults.
pre_annotate_and_filter(indices, locus_id, filter_params) ==
    peak_proximity_filter(
        crosstalk_filter(
            bleedthrough_filter(
                peak_height_filter(
                    base_size_filter(annotate_peaks(indices),
                                     LocusMinBaseLength(locus_id),
                                     LocusMaxBaseLength(locus_id)),
                    filter_params.min_peak_height, DefaultMaxPeakHeight),
                DefaultMaxBleedthrough),
            DefaultMaxCrosstalk),
        DefaultMinPeakDistance)

\* Heights and areas relative to the mean of the channel's peaks, in percent:
\* what post_annotate_peaks does not compute.
post_annotate_peaks_of_mean(peaks) ==
    IF peaks = << >> THEN peaks
    ELSE [k \in 1..Len(peaks) |->
            [peaks[k] EXCEPT
                !.relative_peak_height =
                    (100 * peaks[k].peak_height * Len(peaks))
                        \div SumHeights(peaks),
                !.relative_peak_area =
                    (100 * peaks[k].peak_area * Len(peaks))
                        \div SumHeights(peaks)]]

\* channel.post_annotate_peaks(): heights and areas relative to the largest
\* of the channel, in percent.
post_annotate_peaks(peaks) ==
    IF peaks = << >> THEN peaks
    ELSE [k \in 1..Len(peaks) |->
            [peaks[k] EXCEPT
                !.relative_peak_height =
                    (100 * peaks[k].peak_height)
                        \div MaxOf({peaks[j].peak_height : j \in 1..Len(peaks)}),
                !.relative_peak_area =
                    (100 * peaks[k].peak_area)
                        \div MaxOf({peaks[j].peak_area : j \in 1..Len(peaks)})]]

\* channel.post_filter_peaks(filter_params)
post_filter_peaks(peaks, filter_params) ==
    relative_peak_height_filter(peaks, filter_params.min_peak_height_ratio)

\* recalculate_channel, lines 282-286: annotate and filter until a pass
\* leaves the number of peaks as it was; total_peaks is set after each pass.
RECURSIVE relative_height_loop(_, _, _)
relative_height_pass(peaks, filter_params) ==
    relative_height_loop(peaks, Len(peaks), filter_params)

relative_height_loop(peaks, total_peaks, filter_params) ==
    IF Len(peaks) = total_peaks THEN peaks
    ELSE relative_height_pass(
             post_filter_peaks(post_annotate_peaks(peaks), filter_params),
             filter_params)


(***************************************************************************)
(* State of the persistence layer.                                         *)
(*   kind            the project's polymorphic identity                    *)
(*   channel_locus   Channel.locus_id of every channel (0: None)           *)
(*   params          the project's ProjectLocusParams rows, by locus       *)
(*   annotations     the project's ProjectChannelAnnotations rows, by id   *)
(*   last            the last request served and how it ended              *)
(***************************************************************************)
VARIABLES kind, channel_locus, params, annotations, last

projectVars == <<kind, channel_locus, params, annotations, last>>

(***************************************************************************)
(* State of the analyses built on the channel annotations.                 *)
(*   loop        the relative-height loop of one recalculate_channel call  *)
(*   estimator   the bin estimator project: its peaks and LocusBinSets     *)
(*   samples     the sample-level rows of the genotyping projects          *)
(*   best        one call of get_best_run: its candidates and its result   *)
(*   genotyping  the sample-locus annotations of one genotyping project    *)
(*   artifact    one ArtifactEstimator: its equations                      *)
(*   session     one call on a project as the steps it runs one by one     *)
(***************************************************************************)
VARIABLES loop, estimator, samples, best, genotyping, artifact, session,
          channel, race

analysisVars ==
    <<loop, estimator, samples, best, genotyping, artifact, session, channel,
      race>>

vars == <<gl, running, kind, channel_locus, params, annotations, last,
          loop, estimator, samples, best, genotyping, artifact, session,
          channel, race>>

\* The project types that use Project.add_channel as it is, and the one that
\* overrides it. The genotyping project has no estimator attached
\* (bin_estimator_id and artifact_estimator_id are NULL).
Kinds == {"bin_estimator_project", "genotyping_project"}

NoRequest ==
    [op |-> "none", c |-> 0, l |-> 0, row |-> 0, rescan |-> FALSE,
     ids |-> << >>, req |-> NewLocusParams(0), dirty |-> {},
     result |-> "none"]

Request(op, c, l, row, rescan, result) ==
    [NoRequest EXCEPT !.op = op, !.c = c, !.l = l, !.row = row,
                      !.rescan = rescan, !.result = result]

\* The database as one request sees and leaves it.
Db(a, p) == [annotations |-> a, params |-> p]

\* A request that raises aborts its unit of work: nothing it staged is kept.
Abort(db, exc) == [db |-> db, result |-> exc, row |-> 0]
Done(db, result, row) == [db |-> db, result |-> result, row |-> row]

\* The row of a channel in the project (0: none).
RowsOf(rows, channel_id) == {r \in 1..Len(rows) : rows[r].channel_id = channel_id}
HasRow(rows, channel_id) == RowsOf(rows, channel_id) # {}
FirstRowOf(rows, channel_id) ==
    CHOOSE r \in RowsOf(rows, channel_id) : \A q \in RowsOf(rows, channel_id) : r <= q

\* UniqueConstraint('project_id', 'channel_id'): inserting the rows of these
\* channels is refused when a pair would exist twice.
unique_violation(rows, channel_ids) ==
    \/ \E k \in 1..Len(channel_ids) : HasRow(rows, channel_ids[k])
    \/ \E j, k \in 1..Len(channel_ids) : j # k /\ channel_ids[j] = channel_ids[k]

\* A slip: only the scanning flag is set.
mark_locus_stale_scanning_only(p, l) ==
    [p EXCEPT ![l].scanning_parameters_stale = TRUE]

\* add_channel, lines 210-211: both flags of the locus are set.
mark_locus_stale(p, l) ==
    [p EXCEPT ![l].scanning_parameters_stale = TRUE,
              ![l].filter_parameters_stale = TRUE]

\* A slip: the membership of the locus in the LocusSet is not tested.
valid_channel_locus_any(chloc, channel_id) == chloc[channel_id] # 0

\* add_channel, lines 190-202: the channel has a locus, and the locus is one
\* of the project's LocusSet.
valid_channel_locus(chloc, channel_id) ==
    /\ chloc[channel_id] # 0
    /\ chloc[channel_id] \in ProjectLoci

\* Project.add_channel(channel_id)
Project_add_channel(db, chloc, channel_id) ==
    IF ~valid_channel_locus(chloc, channel_id) THEN Abort(db, "ValueError")
    ELSE IF unique_violation(db.annotations, <<channel_id>>)
         THEN Abort(db, "IntegrityError")
         ELSE Done(Db(Append(db.annotations, NewAnnotation(channel_id)),
                      flush_params(db.params,
                                   mark_locus_stale(db.params, chloc[channel_id]))),
                   "created", Len(db.annotations) + 1)

\* A slip: the override without its guard.
GenotypingProject_add_channel_unguarded(db, chloc, channel_id) ==
    Project_add_channel(db, chloc, channel_id)

\* GenotypingProject.add_channel(channel_id): an existing row is returned.
GenotypingProject_add_channel(db, chloc, channel_id) ==
    IF HasRow(db.annotations, channel_id)
    THEN Done(db, "existing", FirstRowOf(db.annotations, channel_id))
    ELSE Project_add_channel(db, chloc, channel_id)

add_channel(k, db, chloc, channel_id) ==
    IF k = "genotyping_project"
    THEN GenotypingProject_add_channel(db, chloc, channel_id)
    ELSE Project_add_channel(db, chloc, channel_id)

\* Project.add_channels(channel_ids): every channel is validated and its
\* locus marked stale, then the rows are bulk-inserted. The genotyping
\* project's override only adds the commit.
RECURSIVE MarkAll(_, _, _)
MarkAll(p, chloc, channel_ids) ==
    IF channel_ids = << >> THEN p
    ELSE MarkAll(mark_locus_stale(p, chloc[Head(channel_ids)]), chloc,
                 Tail(channel_ids))

Project_add_channels(db, chloc, channel_ids) ==
    IF \E k \in 1..Len(channel_ids) : ~valid_channel_locus(chloc, channel_ids[k])
    THEN Abort(db, "ValueError")
    ELSE IF unique_violation(db.annotations, channel_ids)
         THEN Abort(db, "IntegrityError")
         ELSE Done(Db(db.annotations \o
                        [k \in 1..Len(channel_ids) |-> NewAnnotation(channel_ids[k])],
                      flush_params(db.params, MarkAll(db.params, chloc, channel_ids))),
                   "created", 0)

\* channel.set_peak_indices(peak_indices): a row never scanned has none.
set_peak_indices(peak_indices) ==
    IF peak_indices.none THEN << >> ELSE peak_indices.l

\* The filtering of recalculate_channel, lines 280-288.
filtered_peaks(indices, locus_id, lp) ==
    relative_height_loop(pre_annotate_and_filter(indices, locus_id, lp), -1, lp)

\* recalculate_channel, lines 275-278: the peak indices the channel works on.
channel_peak_indices(row, rescan, lp) ==
    IF rescan THEN identify_peak_indices(lp)
    ELSE set_peak_indices(row.peak_indices)

\* recalculate_channel, lines 277 and 288: what is stored on the annotation.
stored_annotation(row, rescan, indices, locus_id, lp) ==
    [row EXCEPT !.peak_indices = IF rescan THEN SomeList(indices) ELSE @,
                !.annotated_peaks = filtered_peaks(indices, locus_id, lp)]

recalculated_annotation(row, rescan, locus_id, lp) ==
    stored_annotation(row, rescan, channel_peak_indices(row, rescan, lp),
                      locus_id, lp)

\* A slip: the rescan ahead of the test of the well's base sizes.
rescanned_annotation(row, rescan, locus_id, lp) ==
    IF WellSized(row.channel_id)
    THEN recalculated_annotation(row, rescan, locus_id, lp)
    ELSE [row EXCEPT !.peak_indices =
                        IF rescan THEN SomeList(identify_peak_indices(lp)) ELSE @]

Project_recalculate_channel_rescan_first(db, chloc, r, rescan) ==
    IF chloc[db.annotations[r].channel_id] \notin ProjectLoci
    THEN IF rescan \/ WellSized(db.annotations[r].channel_id)
         THEN Abort(db, "NoResultFound")
         ELSE Done(db, "ok", r)
    ELSE Done(Db([db.annotations EXCEPT ![r] =
                    rescanned_annotation(@, rescan, chloc[@.channel_id],
                                         db.params[chloc[@.channel_id]])],
                 db.params), "ok", r)

\* Project.recalculate_channel(channel_annotation_id, rescan_peaks)
Project_recalculate_channel(db, chloc, r, rescan) ==
    IF ~WellSized(db.annotations[r].channel_id) THEN Done(db, "ok", r)
    ELSE IF chloc[db.annotations[r].channel_id] \notin ProjectLoci
         THEN Abort(db, "NoResultFound")
         ELSE Done(Db([db.annotations EXCEPT ![r] =
                         recalculated_annotation(@, rescan, chloc[@.channel_id],
                                                 db.params[chloc[@.channel_id]])],
                      db.params), "ok", r)

\* GenotypingProject.annotate_channel: with no estimator attached the peaks
\* are only marked changed.
annotate_channel(row) == row

annotated_result(k, out, r) ==
    IF k = "genotyping_project" /\ out.result = "ok"
    THEN [out EXCEPT !.db.annotations[r] = annotate_channel(@)]
    ELSE out

\* recalculate_channel of the project's type.
recalculate_channel(k, db, chloc, r, rescan) ==
    annotated_result(k, Project_recalculate_channel(db, chloc, r, rescan), r)

\* recalculate_channels(channel_annotation_ids, rescan_peaks): the rows one
\* after the other; an exception ends the loop.
RECURSIVE recalculate_channels(_, _, _, _, _)
recalculate_rest(k, out, chloc, rows, rescan) ==
    IF out.result # "ok" THEN out
    ELSE recalculate_channels(k, out.db, chloc, rows, rescan)

recalculate_channels(k, db, chloc, rows, rescan) ==
    IF rows = << >> THEN Done(db, "ok", 0)
    ELSE recalculate_rest(k, recalculate_channel(k, db, chloc, Head(rows), rescan),
                          chloc, Tail(rows), rescan)

\* get_locus_channel_annotations(locus_id): the rows whose channel is now at
\* that locus.
get_locus_channel_annotations(db, chloc, locus_id) ==
    SortedSeq({r \in 1..Len(db.annotations) :
                  chloc[db.annotations[r].channel_id] = locus_id})

\* A slip: a rescan whenever either flag is set.
recalculate_stale_always_rescan(k, db, chloc, locus_id) ==
    IF \/ db.params[locus_id].scanning_parameters_stale
       \/ db.params[locus_id].filter_parameters_stale
    THEN recalculate_channels(k, db, chloc,
                              get_locus_channel_annotations(db, chloc, locus_id),
                              TRUE)
    ELSE Done(db, "ok", 0)

\* recalculate_locus, lines 321-328: a rescan when the scanning parameters
\* are stale, a refiltering when only the filter parameters are.
recalculate_stale(k, db, chloc, locus_id) ==
    IF \/ db.params[locus_id].scanning_parameters_stale
       \/ db.params[locus_id].filter_parameters_stale
    THEN recalculate_channels(k, db, chloc,
                              get_locus_channel_annotations(db, chloc, locus_id),
                              db.params[locus_id].scanning_parameters_stale)
    ELSE Done(db, "ok", 0)

\* A slip: only the scanning flag is cleared.
clear_stale_scanning_only(db, out, locus_id) ==
    IF out.result # "ok" THEN Abort(db, out.result)
    ELSE Done(Db(out.db.annotations,
                 flush_params(db.params,
                     [out.db.params EXCEPT
                         ![locus_id].scanning_parameters_stale = FALSE])),
              "ok", 0)

\* recalculate_locus, lines 330-334: both flags are cleared and the session
\* committed.
clear_stale(db, out, locus_id) ==
    IF out.result # "ok" THEN Abort(db, out.result)
    ELSE Done(Db(out.db.annotations,
                 flush_params(db.params,
                     [out.db.params EXCEPT
                         ![locus_id].scanning_parameters_stale = FALSE,
                         ![locus_id].filter_parameters_stale = FALSE])),
              "ok", 0)

\* Project.recalculate_locus(locus_id)
Project_recalculate_locus(k, db, chloc, locus_id) ==
    IF locus_id \notin ProjectLoci THEN Abort(db, "NoResultFound")
    ELSE clear_stale(db, recalculate_stale(k, db, chloc, locus_id), locus_id)

\* An update of a ProjectLocusParams row: the client's values are assigned
\* and the session flushed.
update_locus_params(db, locus_id, row) ==
    Done(Db(db.annotations,
            flush_params(db.params, [db.params EXCEPT ![locus_id] = row])),
         "ok", 0)

(***************************************************************************)
(* Requests to the persistence layer. Each is one unit of work: the state  *)
(* it leaves is committed, or, when it raises, the state it found.         *)
(***************************************************************************)
CurrentDb == Db(annotations, params)

\* The request req ends as out: the database is as out leaves it.
Serve(req, out) ==
    /\ annotations' = out.db.annotations
    /\ params' = out.db.params
    /\ last' = [req EXCEPT !.row = out.row, !.result = out.result]

\* project.add_channel(channel_id)
AddChannel(c) ==
    /\ Serve(Request("add_channel", c, channel_locus[c], 0, FALSE, "none"),
             add_channel(kind, CurrentDb, channel_locus, c))
    /\ UNCHANGED <<kind, channel_locus, gl, running, analysisVars>>

\* project.add_channels(channel_ids)
AddChannels(channel_ids) ==
    /\ Serve([Request("add_channels", 0, 0, 0, FALSE, "none")
                 EXCEPT !.ids = channel_ids],
             Project_add_channels(CurrentDb, channel_locus, channel_ids))
    /\ UNCHANGED <<kind, channel_locus, gl, running, analysisVars>>

\* project.recalculate_channel(channel_annotation_id, rescan_peaks)
RecalculateChannel(r, rescan) ==
    /\ r \in 1..Len(annotations)
    /\ Serve(Request("recalculate_channel", annotations[r].channel_id,
                     channel_locus[annotations[r].channel_id], r, rescan, "none"),
             recalculate_channel(kind, CurrentDb, channel_locus, r, rescan))
    /\ UNCHANGED <<kind, channel_locus, gl, running, analysisVars>>

\* project.recalculate_locus(locus_id)
RecalculateLocus(l) ==
    /\ Serve([Request("recalculate_locus", 0, l, 0, FALSE, "none")
                 EXCEPT !.req = IF l \in ProjectLoci THEN params[l] ELSE @],
             Project_recalculate_locus(kind, CurrentDb, channel_locus, l))
    /\ UNCHANGED <<kind, channel_locus, gl, running, analysisVars>>

\* channel.add_locus(locus_id): the channel is assigned to a locus (0: none).
AssignLocus(c, l) ==
    /\ channel_locus' = [channel_locus EXCEPT ![c] = l]
    /\ last' = Request("add_locus", c, l, 0, FALSE, "ok")
    /\ UNCHANGED <<kind, params, annotations, gl, running, analysisVars>>

\* The rows a client may send for the parameters of a locus.
ClientRows(l) ==
    {[locus_id |-> l, argrelmax_window |-> a, maxima_window |-> m,
      min_peak_height |-> h, min_peak_height_ratio |-> r,
      scanning_parameters_stale |-> s, filter_parameters_stale |-> f,
      variant_field |-> 0] :
        a \in {DefaultArgrelmaxWindow, AltParams.argrelmax_window},
        m \in {DefaultMaximaWindow, AltParams.maxima_window},
        h \in {DefaultMinPeakHeight, AltParams.min_peak_height},
        r \in {DefaultMinPeakHeightRatio, AltParams.min_peak_height_ratio},
        s \in BOOLEAN, f \in BOOLEAN}

\* The attributes of a row whose history holds a change.
DirtyAttrs(old, new) ==
    {AttrOrder[k] : k \in {j \in 1..Len(AttrOrder) :
                              old[AttrOrder[j]] # new[AttrOrder[j]]}}

\* An update of the parameters of a locus.
UpdateLocusParams(l, row) ==
    /\ Serve([Request("update", 0, l, 0, FALSE, "none")
                 EXCEPT !.req = row, !.dirty = DirtyAttrs(params[l], row)],
             update_locus_params(CurrentDb, l, row))
    /\ UNCHANGED <<kind, channel_locus, gl, running, analysisVars>>

(***************************************************************************)
(* Specifications.                                                         *)
(***************************************************************************)
FreshParams == [l \in ProjectLoci |-> NewLocusParams(l)]

\* No analysis has run.
QuietAnalysis ==
    /\ loop = [pc |-> "idle"]
    /\ estimator = [pc |-> "idle"]
    /\ samples = [pc |-> "idle"]
    /\ best = [pc |-> "idle"]
    /\ genotyping = [pc |-> "idle"]
    /\ artifact = [pc |-> "idle"]
    /\ session = [pc |-> "idle"]
    /\ channel = [pc |-> "idle"]
    /\ race = [pc |-> "idle"]

InitProject ==
    /\ kind \in Kinds
    /\ channel_locus = [c \in Channels |-> 0]
    /\ params = FreshParams
    /\ annotations = << >>
    /\ last = NoRequest

QuietProject ==
    /\ kind = "genotyping_project"
    /\ channel_locus = [c \in Channels |-> 0]
    /\ params = FreshParams
    /\ annotations = << >>
    /\ last = NoRequest

GetStep(h) ==
    \/ GetExtract(h)
    \/ GetEmit(h)
    \/ GetSleep(h)
    \/ GetReturn(h)

\* The get handler alone: one greenlet at a time serves get requests.
InitGet ==
    /\ gl = [h \in Greenlets |-> IdleGreenlet]
    /\ running = 0
    /\ QuietProject
    /\ QuietAnalysis

NextGet ==
    \/ \E json \in LongPayloads \cup MixedPayloads :
          Dispatch(1, "get", json) /\ UNCHANGED <<projectVars, analysisVars>>
    \/ Switch(1) /\ UNCHANGED <<projectVars, analysisVars>>
    \/ Retire(1) /\ UNCHANGED <<projectVars, analysisVars>>
    \/ GetStep(1) /\ UNCHANGED <<projectVars, analysisVars>>

SpecGet == InitGet /\ [][NextGet]_vars

\* The gateway: concurrent handlers of every operation.
GatewayPayloads ==
    ChunkedPayloads \cup {NoId, WithId(StrV(<<"1", "x">>)), WithId(ListV(<<NoneV>>))}

InitGatewaySpec ==
    /\ InitGateway
    /\ QuietProject
    /\ QuietAnalysis

NextGateway ==
    \/ \E h \in Greenlets, json \in GatewayPayloads :
          Dispatch(h, "get", json) /\ UNCHANGED <<projectVars, analysisVars>>
    \/ \E h \in Greenlets, op \in Ops \ {"get"} :
          Dispatch(h, op, NoId) /\ UNCHANGED <<projectVars, analysisVars>>
    \/ \E h \in Greenlets : Switch(h) /\ UNCHANGED <<projectVars, analysisVars>>
    \/ \E h \in Greenlets : Retire(h) /\ UNCHANGED <<projectVars, analysisVars>>
    \/ \E h \in Greenlets : GetStep(h) /\ UNCHANGED <<projectVars, analysisVars>>
    \/ \E h \in Greenlets : ListFn(h) /\ UNCHANGED <<projectVars, analysisVars>>
    \/ \E h \in Greenlets : EmitTask(h) /\ UNCHANGED <<projectVars, analysisVars>>
    \/ \E h \in Greenlets : EmitPublish(h) /\ UNCHANGED <<projectVars, analysisVars>>
    \/ \E h \in Greenlets : EmitSleep(h) /\ UNCHANGED <<projectVars, analysisVars>>
    \/ \E h \in Greenlets : EmitReturn(h) /\ UNCHANGED <<projectVars, analysisVars>>

SpecGateway == InitGatewaySpec /\ [][NextGateway]_vars

\* The parameters of the project's loci: clients update the rows of the
\* first locus, and loci are recalculated.
InitParams ==
    /\ InitGateway
    /\ QuietProject
    /\ QuietAnalysis

NextParams ==
    \/ \E row \in ClientRows(1) : UpdateLocusParams(1, row)
    \/ \E l \in Loci : RecalculateLocus(l)

SpecParams == InitParams /\ [][NextParams]_vars

\* The channels of a project of either kind.
ChannelBatches == UNION {[1..n -> Channels] : n \in 1..MaxBatch}

\* The rows a client tuning the peak detection of a locus sends: the row as
\* it is, with a window of its choice.
TunedRows(l) ==
    {[params[l] EXCEPT !.argrelmax_window = a] :
        a \in {DefaultArgrelmaxWindow, AltParams.argrelmax_window}}

InitChannels ==
    /\ InitGateway
    /\ InitProject
    /\ QuietAnalysis

NextChannels ==
    \/ \E c \in Channels : AddChannel(c)
    \/ \E channel_ids \in ChannelBatches : AddChannels(channel_ids)
    \/ \E r \in 1..NumChannels, rescan \in BOOLEAN : RecalculateChannel(r, rescan)
    \/ \E l \in Loci : RecalculateLocus(l)
    \/ \E c \in Channels, l \in Loci \cup {0} : AssignLocus(c, l)
    \/ \E row \in TunedRows(1) : UpdateLocusParams(1, row)

SpecChannels == InitChannels /\ [][NextChannels]_vars

(***************************************************************************)
(* Properties of the gateway.                                              *)
(***************************************************************************)
\* The ids of the events a handler has published, in order.
RECURSIVE EmittedIds(_)
EmittedIds(events) ==
    IF events = << >> THEN << >>
    ELSE EmittedIds(SubSeq(events, 1, Len(events) - 1)) \o events[Len(events)].ids

CeilDiv(n, d) == (n + d - 1) \div d

GetHandlers == {h \in Greenlets : gl[h].op = "get"}

\* C1: for a list of n requested ids the get handler publishes ceil(n/384)
\* 'get' events, each built from at most 384 ids; the chunks published so far
\* are, concatenated, the requested list up to the position reached, and the
\* whole list once the handler has returned.
C1_ChunkedGet ==
    \A h \in GetHandlers :
        gl[h].pc \in {"loop", "sleep", "done"} =>
            LET g == gl[h]
                n == Len(g.ids)
            IN  /\ \A k \in 1..Len(g.emitted) :
                      /\ g.emitted[k].event = "get"
                      /\ Len(g.emitted[k].ids) >= 1
                      /\ Len(g.emitted[k].ids) <= subset_size
                /\ Len(g.emitted) <= CeilDiv(n, subset_size)
                /\ EmittedIds(g.emitted) =
                      SubSeq(g.ids, 1, Min(n, subset_size * Len(g.emitted)))
                /\ g.pc = "done" =>
                      /\ Len(g.emitted) = CeilDiv(n, subset_size)
                      /\ EmittedIds(g.emitted) = g.ids

\* A get request of more than two chunks of ids has been served in three
\* events.
C1_Witness ==
    \E h \in GetHandlers :
        /\ gl[h].pc = "done"
        /\ Len(gl[h].ids) > 2 * subset_size
        /\ Len(gl[h].emitted) = 3

\* C2: a get request that extract_ids does not accept fails with the
\* GetException 'Field id not valid' and with no other kind of fault, and
\* publishes no 'get' event.
C2_OnlyFieldIdNotValid ==
    \A h \in GetHandlers :
        gl[h].pc = "raised" =>
            /\ gl[h].exc = "GetException"
            /\ gl[h].msg = "Field id not valid"
            /\ gl[h].emitted = << >>

\* C3: a get request with an invalid payload (id missing, of a wrong shape or
\* not numeric) ends inside the handler, with a 404 response carrying the
\* error; no exception leaves the handler.
C3_InvalidGetAnswered ==
    \A h \in GetHandlers :
        (gl[h].pc \notin {"idle", "start"} /\ extract_ids(gl[h].json).exc # "none")
            => /\ gl[h].pc = "done"
               /\ gl[h].exc = "none"
               /\ gl[h].response = "404"

\* C4: in every gateway operation a publish is immediately followed by a
\* yield to the scheduler, before the operation's next step or its return.
C4_PublishThenYield ==
    \A h \in Greenlets :
        \A k \in 1..Len(gl[h].steps) :
            (gl[h].steps[k] = "publish" /\ k < Len(gl[h].steps))
                => gl[h].steps[k + 1] = "yield"

(***************************************************************************)
(* Properties of the persistence layer.                                    *)
(***************************************************************************)
StaleFlags(p) ==
    [l \in DOMAIN p |-> <<p[l].scanning_parameters_stale,
                          p[l].filter_parameters_stale>>]

Changes(old, new, fields) == \E f \in fields : old[f] # new[f]

\* C5: an update of a ProjectLocusParams row that changes a field of the
\* scanning-parameter set leaves scanning_parameters_stale true, and one that
\* changes a field of the filter-parameter set leaves filter_parameters_stale
\* true.
C5_ChangeMarksStale ==
    [][\A l \in ProjectLoci :
          /\ Changes(params[l], params'[l], ScanningParams)
                => params'[l].scanning_parameters_stale
          /\ Changes(params[l], params'[l], FilterParams)
                => params'[l].filter_parameters_stale]_vars

\* A client changed only the second scanning parameter and only the second
\* filter parameter of a row and sent both flags as false: both are true.
C5_Witness ==
    /\ last.op = "update"
    /\ last.dirty \cap (ScanningParams \cup FilterParams)
          = {"maxima_window", "min_peak_height_ratio"}
    /\ ~last.req.scanning_parameters_stale
    /\ ~last.req.filter_parameters_stale
    /\ params[last.l].scanning_parameters_stale
    /\ params[last.l].filter_parameters_stale

\* The call of add_channel that led to the next state.
AddChannelCall == last'.op = "add_channel"

\* The channel of that call has no locus (0), or one outside the LocusSet.
NoLocusOfProject == channel_locus[last'.c] \notin ProjectLoci

\* C6 (as stated): add_channel fails with ValueError when the channel has no
\* locus or its locus is outside the project's LocusSet, and then creates no
\* annotation row and changes no staleness flag.
C6_InvalidLocusRejected ==
    [][(AddChannelCall /\ NoLocusOfProject)
          => /\ last'.result = "ValueError"
             /\ annotations' = annotations
             /\ params' = params]_vars

\* C6 (amended): add_channel fails with ValueError when the channel has no
\* locus or its locus is outside the project's LocusSet, unless the project
\* is a GenotypingProject that already holds an annotation row of the
\* channel; whenever the channel's locus is not valid, no annotation row is
\* created and no staleness flag is changed.
C6_InvalidLocusRejectedUnlessExisting ==
    [][(AddChannelCall /\ NoLocusOfProject)
          => /\ (kind = "genotyping_project" /\ HasRow(annotations, last'.c))
                  \/ last'.result = "ValueError"
             /\ annotations' = annotations
             /\ params' = params]_vars

\* add_channel was refused for a channel whose locus is outside the LocusSet,
\* in a project that holds rows and has clear flags.
C6_Witness ==
    /\ last.op = "add_channel"
    /\ last.result = "ValueError"
    /\ last.l \notin ProjectLoci /\ last.l # 0
    /\ annotations # << >>
    /\ ~HasRow(annotations, last.c)
    /\ \E l \in ProjectLoci : ~params[l].scanning_parameters_stale

Succeeded(result) == result \in {"created", "existing"}

\* C7 (as stated): when add_channel succeeds for a channel whose locus L is
\* in the LocusSet, the project has an annotation row of the channel, both
\* flags of L are true, and the flags of every other locus are unchanged.
C7_AddChannelMarksStale ==
    [][(/\ AddChannelCall
        /\ Succeeded(last'.result)
        /\ channel_locus[last'.c] \in ProjectLoci)
          => /\ HasRow(annotations', last'.c)
             /\ params'[channel_locus[last'.c]].scanning_parameters_stale
             /\ params'[channel_locus[last'.c]].filter_parameters_stale
             /\ \A l \in ProjectLoci \ {channel_locus[last'.c]} :
                   StaleFlags(params')[l] = StaleFlags(params)[l]]_vars

\* C7 (amended): the same, for a call that found no annotation row of the
\* channel in the project.
C7_FirstAddChannelMarksStale ==
    [][(/\ AddChannelCall
        /\ Succeeded(last'.result)
        /\ channel_locus[last'.c] \in ProjectLoci
        /\ ~HasRow(annotations, last'.c))
          => /\ HasRow(annotations', last'.c)
             /\ Cardinality(RowsOf(annotations', last'.c)) = 1
             /\ params'[channel_locus[last'.c]].scanning_parameters_stale
             /\ params'[channel_locus[last'.c]].filter_parameters_stale
             /\ \A l \in ProjectLoci \ {channel_locus[last'.c]} :
                   StaleFlags(params')[l] = StaleFlags(params)[l]]_vars

\* A channel was added at a locus while the flags of another locus are clear.
C7_Witness ==
    /\ last.op = "add_channel"
    /\ last.result = "created"
    /\ last.row = Len(annotations)
    /\ annotations[last.row].channel_id = last.c
    /\ params[last.l].scanning_parameters_stale
    /\ params[last.l].filter_parameters_stale
    /\ \E l \in ProjectLoci \ {last.l} :
          /\ ~params[l].scanning_parameters_stale
          /\ ~params[l].filter_parameters_stale

\* C8: GenotypingProject.add_channel on a channel that has an annotation row
\* in the project returns that row, creates none, and leaves every row's
\* annotated_peaks and peak_indices and every staleness flag as they were.
C8_GenotypingAddIdempotent ==
    [][(/\ AddChannelCall
        /\ kind = "genotyping_project"
        /\ HasRow(annotations, last'.c))
          => /\ last'.result = "existing"
             /\ last'.row = FirstRowOf(annotations, last'.c)
             /\ annotations' = annotations
             /\ params' = params]_vars

\* A genotyping project was asked again for a channel whose row holds peaks,
\* at a locus whose flags are clear.
C8_Witness ==
    /\ kind = "genotyping_project"
    /\ last.op = "add_channel"
    /\ last.result = "existing"
    /\ annotations[last.row].channel_id = last.c
    /\ annotations[last.row].annotated_peaks # << >>
    /\ ~annotations[last.row].peak_indices.none
    /\ last.l \in ProjectLoci
    /\ ~params[last.l].scanning_parameters_stale

\* C9: no call on a GenotypingProject attempts to insert a second annotation
\* row of a (project, channel) pair: no insert is refused by the unique
\* constraint, and no pair has two rows.
C9_NoSecondInsert ==
    kind = "genotyping_project" =>
        /\ last.result # "IntegrityError"
        /\ \A c \in Channels : Cardinality(RowsOf(annotations, c)) <= 1

\* The call of recalculate_channel that led to the next state.
RecalculateChannelCall ==
    /\ last'.op = "recalculate_channel"
    /\ last'.row \in 1..Len(annotations)

\* C10: recalculate_channel on a channel whose well has no base sizes leaves
\* annotated_peaks and peak_indices of the annotation as they were, whether
\* peaks are rescanned or not.
C10_UnsizedWellUntouched ==
    [][(RecalculateChannelCall /\ ~WellSized(annotations[last'.row].channel_id))
          => /\ last'.result = "ok"
             /\ Len(annotations') = Len(annotations)
             /\ annotations'[last'.row].annotated_peaks
                   = annotations[last'.row].annotated_peaks
             /\ annotations'[last'.row].peak_indices
                   = annotations[last'.row].peak_indices]_vars

\* A channel of an unsized well was recalculated with a rescan, in a project
\* where a channel of a sized well has been scanned.
C10_Witness ==
    /\ last.op = "recalculate_channel"
    /\ last.rescan
    /\ last.result = "ok"
    /\ last.l \in ProjectLoci
    /\ ~WellSized(annotations[last.row].channel_id)
    /\ annotations[last.row].peak_indices.none
    /\ \E r \in 1..Len(annotations) : ~annotations[r].peak_indices.none

(***************************************************************************)
(* The relative-height loop of recalculate_channel, statement by           *)
(* statement.                                                              *)
(***************************************************************************)
MaxPeaks == 3

PeakHeights == {100, 400, 900}

HeightRatios == {0, 30, 70, 101}

\* The peaks pre_annotate_and_filter leaves on a channel, of the heights
\* given.
ChannelPeaks(heights) ==
    [k \in 1..Len(heights) |->
        [peak_index |-> k,
         base_size |-> BaseSize(k),
         peak_height |-> heights[k],
         bleedthrough_ratio |-> 0,
         crosstalk_ratio |-> 0,
         peak_area |-> heights[k],
         relative_peak_height |-> 0,
         relative_peak_area |-> 0]]

HeightLists == UNION {[1..n -> PeakHeights] : n \in 0..MaxPeaks}

\* total_peaks = -1
LoopEnter ==
    /\ loop.pc = "entry"
    /\ loop' = [loop EXCEPT !.pc = "test", !.total_peaks = -1]
    /\ UNCHANGED <<gl, running, channel, race, session, projectVars, genotyping, artifact, estimator, samples, best>>

\* while len(channel.peaks) != total_peaks
LoopTest ==
    /\ loop.pc = "test"
    /\ loop' = [loop EXCEPT
                   !.pc = IF Len(loop.peaks) # loop.total_peaks
                          THEN "body" ELSE "done"]
    /\ UNCHANGED <<gl, running, channel, race, session, projectVars, genotyping, artifact, estimator, samples, best>>

loop_after_pass(lp, peaks) ==
    [lp EXCEPT !.pc = "test",
               !.peaks = peaks,
               !.total_peaks = Len(peaks),
               !.passes = lp.passes + 1,
               !.removed = Len(lp.peaks) - Len(peaks)]

\* channel.post_annotate_peaks(); channel.post_filter_peaks(filter_params);
\* total_peaks = len(channel.peaks)
LoopPass ==
    /\ loop.pc = "body"
    /\ loop' = loop_after_pass(loop,
                   post_filter_peaks(post_annotate_peaks(loop.peaks),
                                     loop.filter_params))
    /\ UNCHANGED <<gl, running, channel, race, session, projectVars, genotyping, artifact, estimator, samples, best>>

\* One more annotate-then-filter pass over the peaks the loop left.
LoopAgain ==
    /\ loop.pc = "done"
    /\ loop' = [loop EXCEPT
                   !.pc = "again",
                   !.again = post_filter_peaks(post_annotate_peaks(loop.peaks),
                                               loop.filter_params)]
    /\ UNCHANGED <<gl, running, channel, race, session, projectVars, genotyping, artifact, estimator, samples, best>>

InitLoop ==
    /\ InitGateway
    /\ QuietProject
    /\ session = [pc |-> "idle"]
    /\ channel = [pc |-> "idle"]
    /\ race = [pc |-> "idle"]
    /\ genotyping = [pc |-> "idle"]
    /\ artifact = [pc |-> "idle"]
    /\ \E heights \in HeightLists, ratio \in HeightRatios :
          loop = [pc |-> "entry",
                  peaks |-> ChannelPeaks(heights),
                  filter_params |-> [min_peak_height_ratio |-> ratio],
                  total_peaks |-> 0,
                  passes |-> 0,
                  removed |-> 0,
                  again |-> << >>]
    /\ estimator = [pc |-> "idle"]
    /\ samples = [pc |-> "idle"]
    /\ best = [pc |-> "idle"]

NextLoop ==
    \/ LoopEnter
    \/ LoopTest
    \/ LoopPass
    \/ LoopAgain

SpecLoop == InitLoop /\ [][NextLoop]_vars

\* C11: the relative-height pass is repeated until a full pass removes no
\* peak: when the loop has finished, the last pass it executed removed none.
C11_LastPassRemovedNone ==
    loop.pc = "done" => loop.removed = 0

LocusRows(l) ==
    {[params[l] EXCEPT !.argrelmax_window = a, !.min_peak_height = h,
                       !.scanning_parameters_stale = s,
                       !.filter_parameters_stale = f] :
        a \in {DefaultArgrelmaxWindow, AltParams.argrelmax_window},
        h \in {DefaultMinPeakHeight, AltParams.min_peak_height},
        s \in BOOLEAN, f \in BOOLEAN}

\* Every channel has been assigned a locus of the LocusSet.
InitLocus ==
    /\ InitGateway
    /\ kind \in Kinds
    /\ channel_locus \in [Channels -> ProjectLoci]
    /\ params = FreshParams
    /\ annotations = << >>
    /\ last = NoRequest
    /\ QuietAnalysis

NextLocus ==
    \/ \E c \in Channels : AddChannel(c)
    \/ \E l \in Loci : RecalculateLocus(l)
    \/ \E row \in LocusRows(1) : UpdateLocusParams(1, row)

SpecLocus == InitLocus /\ [][NextLocus]_vars

RecalculateLocusCall ==
    /\ last'.op = "recalculate_locus"
    /\ last'.l \in ProjectLoci

\* The channel annotation is one of a sized well's channel at the locus.
SizedAt(row, l) ==
    /\ channel_locus[row.channel_id] = l
    /\ WellSized(row.channel_id)

\* C13: recalculate_locus(L) chooses its work from the flags it finds: with
\* scanning_parameters_stale every channel annotation at L is recalculated
\* from a rescan of its peaks; with only filter_parameters_stale every one is
\* recalculated from its stored peak_indices, which stay as they are; with
\* neither no channel annotation is modified.
C13_WorkFromFlags ==
    [][RecalculateLocusCall
          => /\ last'.result = "ok"
             /\ Len(annotations') = Len(annotations)
             /\ \A r \in 1..Len(annotations) :
                  IF /\ SizedAt(annotations[r], last'.l)
                     /\ params[last'.l].scanning_parameters_stale
                  THEN /\ annotations'[r].peak_indices
                            = SomeList(identify_peak_indices(params[last'.l]))
                       /\ annotations'[r].annotated_peaks
                            = filtered_peaks(identify_peak_indices(params[last'.l]),
                                             last'.l, params[last'.l])
                  ELSE IF /\ SizedAt(annotations[r], last'.l)
                          /\ params[last'.l].filter_parameters_stale
                  THEN /\ annotations'[r].peak_indices = annotations[r].peak_indices
                       /\ annotations'[r].annotated_peaks
                            = filtered_peaks(
                                  set_peak_indices(annotations[r].peak_indices),
                                  last'.l, params[last'.l])
                  ELSE annotations'[r] = annotations[r]]_vars

\* A locus with only its filter parameters stale was recalculated: a channel
\* annotation at it kept peak indices that a rescan would have replaced.
C13_Witness ==
    /\ last.op = "recalculate_locus"
    /\ last.result = "ok"
    /\ last.l \in ProjectLoci
    /\ ~last.req.scanning_parameters_stale
    /\ last.req.filter_parameters_stale
    /\ \E r \in 1..Len(annotations) :
          /\ SizedAt(annotations[r], last.l)
          /\ annotations[r].peak_indices
                # SomeList(identify_peak_indices(params[last.l]))
          /\ annotations[r].annotated_peaks # << >>

\* C14: when recalculate_locus(L) completes, both flags of L are false
\* whatever they were, and the flags of every other locus are as they were.
C14_FlagsCleared ==
    [][(RecalculateLocusCall /\ last'.result = "ok")
          => \A l \in ProjectLoci :
                IF l = last'.l
                THEN /\ ~params'[l].scanning_parameters_stale
                     /\ ~params'[l].filter_parameters_stale
                ELSE StaleFlags(params')[l] = StaleFlags(params)[l]]_vars

\* A locus with both flags set was recalculated while another locus was
\* stale: its flags are down, the other's are up.
C14_Witness ==
    /\ last.op = "recalculate_locus"
    /\ last.result = "ok"
    /\ last.l \in ProjectLoci
    /\ last.req.scanning_parameters_stale
    /\ last.req.filter_parameters_stale
    /\ ~params[last.l].scanning_parameters_stale
    /\ ~params[last.l].filter_parameters_stale
    /\ \E l \in ProjectLoci \ {last.l} :
          /\ params[l].scanning_parameters_stale
          /\ params[l].filter_parameters_stale
    /\ \E r \in 1..Len(annotations) : SizedAt(annotations[r], last.l)

(***************************************************************************)
(* The bin estimator project and the genotyping projects that use it.      *)
(* Every request is one unit of work: what it leaves is committed, or,     *)
(* when it raises, what it found.                                          *)
(***************************************************************************)
MaxBinId == 8

\* GenotypingProject rows: the first two use the bin estimator project, the
\* third another one; the LocusSet of the second holds the second locus only.
GenotypingProjects == {1, 2, 3}

bin_estimator_id(g) == IF g = 3 THEN 2 ELSE 1

locus_set(g) == IF g = 2 THEN {2} ELSE ProjectLoci

\* The channels of the samples, by channel id: Channel.sample_id and
\* Channel.locus_id (0: None).
SampleChannels ==
    <<[sample_id |-> 1, locus_id |-> 1], [sample_id |-> 1, locus_id |-> 2],
      [sample_id |-> 1, locus_id |-> 3], [sample_id |-> 2, locus_id |-> 2],
      [sample_id |-> 2, locus_id |-> 0]>>

\* BinEstimatorLocusParams of the bin estimator project, as its owner set
\* them.
EstimatorParams == [min_peak_frequency |-> 2, default_bin_buffer |-> 1]

\* The pooled annotated peaks of the estimator's channels at a locus, by
\* base size.
PeakPools == {<< >>, <<120>>, <<120, 150, 120, 150>>}

NewBin(id, base_size, bin_buffer, peak_count) ==
    [id |-> id, base_size |-> base_size, bin_buffer |-> bin_buffer,
     peak_count |-> peak_count]

PeakCount(peaks, base_size) ==
    Cardinality({k \in 1..Len(peaks) : peaks[k] = base_size})

\* The base sizes BinFinder.calculate_bins makes bins of: those with at least
\* min_peak_frequency peaks, ascending.
BinSizes(peaks, min_peak_frequency) ==
    SortedSeq({peaks[k] : k \in {j \in 1..Len(peaks) :
                  PeakCount(peaks, peaks[j]) >= min_peak_frequency}})

NewBins(sizes, peaks, bin_buffer, first_id) ==
    [k \in 1..Len(sizes) |->
        NewBin(first_id + k - 1, sizes[k], bin_buffer, PeakCount(peaks, sizes[k]))]

\* LocusBinSet.from_peaks(locus_id, peaks, min_peak_frequency, bin_buffer):
\* the rows get the next ids of their tables.
from_peaks(locus_id, peaks, min_peak_frequency, bin_buffer, first_id) ==
    [locus_id |-> locus_id,
     bins |-> NewBins(BinSizes(peaks, min_peak_frequency), peaks, bin_buffer,
                      first_id)]

\* A slip: the previous set of the locus is kept.
delete_locus_bin_set_none(est, locus_id) == est

\* delete_locus_bin_set(locus_id)
delete_locus_bin_set(est, locus_id) ==
    [est EXCEPT !.locus_bin_sets =
        SelectSeqIdx(@, {k \in 1..Len(@) : @[k].locus_id # locus_id})]

\* calculate_locus_bin_set, lines 498-503: a set is built of a pool that
\* holds a peak.
append_locus_bin_set(est, locus_bin_set) ==
    [est EXCEPT !.locus_bin_sets = Append(@, locus_bin_set),
                !.next_bin_id = @ + Len(locus_bin_set.bins)]

built_locus_bin_set(est, locus_id) ==
    IF est.pool[locus_id] = << >> THEN est
    ELSE append_locus_bin_set(est,
             from_peaks(locus_id, est.pool[locus_id],
                        EstimatorParams.min_peak_frequency,
                        EstimatorParams.default_bin_buffer, est.next_bin_id))

\* BinEstimatorProject.calculate_locus_bin_set(locus_id); result "ok" or the
\* exception raised.
calculate_locus_bin_set(est, locus_id) ==
    IF locus_id \notin ProjectLoci
    THEN [est EXCEPT !.result = "NoResultFound"]
    ELSE built_locus_bin_set(delete_locus_bin_set(est, locus_id), locus_id)

\* BinEstimatorProject.calculate_locus_bin_sets(): every locus of the
\* LocusSet in turn.
RECURSIVE calculate_locus_bin_sets(_, _)
calculate_locus_bin_sets(est, loci) ==
    IF loci = << >> THEN est
    ELSE calculate_locus_bin_sets(calculate_locus_bin_set(est, Head(loci)),
                                  Tail(loci))

\* The ids of the bins of a bin estimator project at a locus, as
\* initialize_alleles and add_sample query them.
bin_ids(est, estimator_id, locus_id) ==
    IF estimator_id # 1 THEN {MaxBinId + locus_id}
    ELSE UNION {{est.locus_bin_sets[k].bins[b].id :
                    b \in 1..Len(est.locus_bin_sets[k].bins)} :
                k \in {j \in 1..Len(est.locus_bin_sets) :
                          est.locus_bin_sets[j].locus_id = locus_id}}

\* dict([(str(id), False) for id in bin_ids])
seeded_alleles(ids) == [key \in {ToString(id) : id \in ids} |-> FALSE]

\* clear_sample_annotations(locus_id)
clear_sample_annotations(project, locus_id) ==
    [project EXCEPT !.locus_annotations =
        [k \in 1..Len(@) |->
            IF @[k].locus_id = locus_id
            THEN [@[k] EXCEPT !.annotated_peaks = << >>,
                              !.reference_run_id = 0,
                              !.flags = << >>]
            ELSE @[k]]]

unbinned(peaks) ==
    [k \in 1..Len(peaks) |->
        [peaks[k] EXCEPT !.in_bin = FALSE, !.bin = "", !.bin_id = 0]]

\* A slip: the channel annotations of every locus are cleared.
clear_bin_annotations_all_loci(project, locus_id) ==
    clear_sample_annotations(
        [project EXCEPT !.channel_annotations =
            [k \in 1..Len(@) |-> [@[k] EXCEPT !.annotated_peaks = unbinned(@)]]],
        locus_id)

\* clear_bin_annotations(locus_id)
clear_bin_annotations(project, locus_id) ==
    clear_sample_annotations(
        [project EXCEPT !.channel_annotations =
            [k \in 1..Len(@) |->
                IF SampleChannels[@[k].channel_id].locus_id = locus_id
                THEN [@[k] EXCEPT !.annotated_peaks = unbinned(@)]
                ELSE @[k]]],
        locus_id)

without_artifact(peaks) ==
    [k \in 1..Len(peaks) |->
        [peaks[k] EXCEPT !.artifact_contribution = 0, !.artifact_error = 0]]

\* clear_artifact_annotations(locus_id)
clear_artifact_annotations(project, locus_id) ==
    clear_sample_annotations(
        [project EXCEPT !.channel_annotations =
            [k \in 1..Len(@) |->
                IF SampleChannels[@[k].channel_id].locus_id = locus_id
                THEN [@[k] EXCEPT !.annotated_peaks = without_artifact(@)]
                ELSE @[k]]],
        locus_id)

\* initialize_alleles(locus_id)
initialize_alleles(project, ids, locus_id) ==
    [project EXCEPT !.locus_annotations =
        [k \in 1..Len(@) |->
            IF @[k].locus_id = locus_id
            THEN [@[k] EXCEPT !.alleles = seeded_alleles(ids)]
            ELSE @[k]]]

\* bin_estimator_changed and artifact_estimator_changed, last two lines:
\* get_locus_parameters raises when the project has no row for the locus.
filter_stale(g, project, locus_id) ==
    IF locus_id \notin locus_set(g)
    THEN [project EXCEPT !.result = "NoResultFound"]
    ELSE [project EXCEPT !.stale[locus_id].filter_parameters_stale = TRUE]

\* GenotypingProject.bin_estimator_changed(locus_id)
bin_estimator_changed(g, project, est, locus_id) ==
    filter_stale(g,
        initialize_alleles(clear_bin_annotations(project, locus_id),
                           bin_ids(est, bin_estimator_id(g), locus_id),
                           locus_id),
        locus_id)

\* GenotypingProject.artifact_estimator_changed(locus_id)
artifact_estimator_changed(g, project, est, locus_id) ==
    filter_stale(g,
        initialize_alleles(clear_artifact_annotations(project, locus_id),
                           bin_ids(est, bin_estimator_id(g), locus_id),
                           locus_id),
        locus_id)

\* analyze_locus, lines 526-529: every GenotypingProject whose bin estimator
\* is this project is told.
cascade(projects, est, locus_id) ==
    [g \in GenotypingProjects |->
        IF bin_estimator_id(g) = 1
        THEN bin_estimator_changed(g, projects[g], est, locus_id)
        ELSE projects[g]]

\* The unit of work of a request: what it staged since its last commit is
\* kept when nothing raised.
Failed(est, projects) ==
    \/ est.result # "ok"
    \/ \E g \in GenotypingProjects : projects[g].result # "ok"

EstimatorRequest(op, l) == [op |-> op, g |-> 0, l |-> l, result |-> "ok"]

Commit(request, found, est, projects) ==
    /\ estimator' = IF Failed(est, projects) THEN found ELSE est
    /\ samples' = [samples EXCEPT
                      !.projects = IF Failed(est, projects) THEN @ ELSE projects,
                      !.last = [request EXCEPT
                                   !.result =
                                       IF est.result # "ok" THEN est.result
                                       ELSE IF Failed(est, projects)
                                            THEN "NoResultFound" ELSE "ok"]]

\* The ids left suffice for the bins of so many loci.
IdsLeft(loci) == estimator.next_bin_id + 2 * loci <= MaxBinId + 1

\* estimator.calculate_locus_bin_set(locus_id)
CalculateLocusBinSet(l) ==
    /\ IdsLeft(1)
    /\ Commit(EstimatorRequest("calculate_locus_bin_set", l), estimator,
              calculate_locus_bin_set(estimator, l), samples.projects)
    /\ UNCHANGED <<gl, running, channel, race, session, projectVars, genotyping, artifact, loop, best>>

\* estimator.calculate_locus_bin_sets()
CalculateLocusBinSets ==
    /\ IdsLeft(Cardinality(ProjectLoci))
    /\ Commit(EstimatorRequest("calculate_locus_bin_sets", 0), estimator,
              calculate_locus_bin_sets(estimator, SortedSeq(ProjectLoci)),
              samples.projects)
    /\ UNCHANGED <<gl, running, channel, race, session, projectVars, genotyping, artifact, loop, best>>

\* analyze_locus, lines 524-525: the locus is recalculated, which leaves the
\* peaks given on the estimator's channels and commits them, and its bin set
\* is built.
analyzed(est, locus_id, peaks) ==
    calculate_locus_bin_set([est EXCEPT !.pool[locus_id] = peaks], locus_id)

\* estimator.analyze_locus(locus_id)
AnalyzeLocus(l, peaks) ==
    /\ IdsLeft(1)
    /\ l \in ProjectLoci
    /\ Commit(EstimatorRequest("analyze_locus", l),
              [estimator EXCEPT !.pool[l] = peaks],
              analyzed(estimator, l, peaks),
              cascade(samples.projects, analyzed(estimator, l, peaks), l))
    /\ UNCHANGED <<gl, running, channel, race, session, projectVars, genotyping, artifact, loop, best>>

\* estimator.analyze_locus(locus_id) of a locus outside the LocusSet:
\* recalculate_locus finds no parameters.
AnalyzeForeignLocus(l) ==
    /\ l \notin ProjectLoci
    /\ Commit(EstimatorRequest("analyze_locus", l), estimator,
              [estimator EXCEPT !.result = "NoResultFound"], samples.projects)
    /\ UNCHANGED <<gl, running, channel, race, session, projectVars, genotyping, artifact, loop, best>>

GenotypingRequest(op, g, l) == [op |-> op, g |-> g, l |-> l, result |-> "ok"]

\* project.bin_estimator_changed(locus_id)
BinEstimatorChanged(g, l) ==
    /\ Commit(GenotypingRequest("bin_estimator_changed", g, l),
              estimator, estimator,
              [samples.projects EXCEPT
                  ![g] = bin_estimator_changed(g, @, estimator, l)])
    /\ UNCHANGED <<gl, running, channel, race, session, projectVars, genotyping, artifact, loop, best>>

\* project.artifact_estimator_changed(locus_id)
ArtifactEstimatorChanged(g, l) ==
    /\ Commit(GenotypingRequest("artifact_estimator_changed", g, l),
              estimator, estimator,
              [samples.projects EXCEPT
                  ![g] = artifact_estimator_changed(g, @, estimator, l)])
    /\ UNCHANGED <<gl, running, channel, race, session, projectVars, genotyping, artifact, loop, best>>

\* The bin estimator project with a bin set at either locus.
AnalyzedEstimator ==
    [pool |-> [l \in ProjectLoci |->
                  IF l = 1 THEN <<120, 150, 120, 150>> ELSE <<120, 120>>],
     locus_bin_sets |->
        <<from_peaks(1, <<120, 150, 120, 150>>, 2, 1, 1),
          from_peaks(2, <<120, 120>>, 2, 1, 3)>>,
     next_bin_id |-> 4,
     result |-> "ok"]

\* A peak of a genotyped channel: in a bin, with an artifact estimate.
BinnedPeak(bin_id) ==
    [base_size |-> 120, peak_height |-> 400, in_bin |-> TRUE, bin |-> "120",
     bin_id |-> bin_id, artifact_contribution |-> 5, artifact_error |-> 1]

FirstBinId(g, l) ==
    CHOOSE id \in bin_ids(AnalyzedEstimator, bin_estimator_id(g), l) :
        \A other \in bin_ids(AnalyzedEstimator, bin_estimator_id(g), l) :
            id <= other

\* A genotyping project that holds the first sample, analyzed: its channels
\* at the loci of the LocusSet are annotated and its alleles called.
GenotypedProject(g) ==
    [channel_annotations |->
        SelectSeqIdx(
            [c \in 1..2 |->
                [channel_id |-> c,
                 annotated_peaks |-> <<BinnedPeak(FirstBinId(g, c))>>]],
            locus_set(g)),
     sample_annotations |-> <<1>>,
     locus_annotations |->
        SelectSeqIdx(
            [l \in 1..2 |->
                [sample_id |-> 1, locus_id |-> l,
                 alleles |->
                    [key \in {ToString(id) :
                                id \in bin_ids(AnalyzedEstimator,
                                               bin_estimator_id(g), l)}
                        |-> key = ToString(FirstBinId(g, l))],
                 annotated_peaks |-> <<BinnedPeak(FirstBinId(g, l))>>,
                 reference_run_id |-> l,
                 flags |-> [manual_curation |-> FALSE]]],
            locus_set(g)),
     stale |-> [l \in locus_set(g) |->
                  [scanning_parameters_stale |-> FALSE,
                   filter_parameters_stale |-> FALSE]],
     result |-> "ok"]

InitEstimator ==
    /\ InitGateway
    /\ QuietProject
    /\ session = [pc |-> "idle"]
    /\ channel = [pc |-> "idle"]
    /\ race = [pc |-> "idle"]
    /\ genotyping = [pc |-> "idle"]
    /\ artifact = [pc |-> "idle"]
    /\ loop = [pc |-> "idle"]
    /\ best = [pc |-> "idle"]
    /\ estimator = AnalyzedEstimator
    /\ samples = [projects |-> [g \in GenotypingProjects |-> GenotypedProject(g)],
                  last |-> EstimatorRequest("none", 0)]

\* The bin estimator project at work.
NextEstimator ==
    \/ \E l \in Loci : CalculateLocusBinSet(l)
    \/ CalculateLocusBinSets
    \/ \E l \in Loci, peaks \in PeakPools : AnalyzeLocus(l, peaks)
    \/ \E l \in Loci : AnalyzeForeignLocus(l)

SpecEstimator == InitEstimator /\ [][NextEstimator]_vars

\* The genotyping projects are told of a change of their estimators.
NextChanged ==
    \/ \E g \in GenotypingProjects, l \in Loci : BinEstimatorChanged(g, l)
    \/ \E g \in GenotypingProjects, l \in Loci : ArtifactEstimatorChanged(g, l)

SpecChanged == InitEstimator /\ [][NextChanged]_vars

(***************************************************************************)
(* Properties of the estimators and of the projects that use them.         *)
(***************************************************************************)
ChangedCall ==
    /\ samples'.last.op \in {"bin_estimator_changed", "artifact_estimator_changed"}
    /\ samples'.last.result = "ok"

NeutralPeak(op, peak) ==
    IF op = "bin_estimator_changed"
    THEN ~peak.in_bin /\ peak.bin = "" /\ peak.bin_id = 0
    ELSE peak.artifact_contribution = 0 /\ peak.artifact_error = 0

\* What the hook called for locus l made of a project.
ClearedAt(op, l, old, new) ==
    /\ Len(new.channel_annotations) = Len(old.channel_annotations)
    /\ \A k \in 1..Len(old.channel_annotations) :
          IF SampleChannels[old.channel_annotations[k].channel_id].locus_id = l
          THEN \A p \in 1..Len(new.channel_annotations[k].annotated_peaks) :
                  NeutralPeak(op, new.channel_annotations[k].annotated_peaks[p])
          ELSE new.channel_annotations[k] = old.channel_annotations[k]
    /\ Len(new.locus_annotations) = Len(old.locus_annotations)
    /\ \A k \in 1..Len(old.locus_annotations) :
          IF old.locus_annotations[k].locus_id = l
          THEN \A key \in DOMAIN new.locus_annotations[k].alleles :
                  ~new.locus_annotations[k].alleles[key]
          ELSE new.locus_annotations[k] = old.locus_annotations[k]
    /\ new.stale[l].filter_parameters_stale
    /\ \A other \in (DOMAIN old.stale) \ {l} : new.stale[other] = old.stale[other]

SetsAt(est, l) ==
    {k \in 1..Len(est.locus_bin_sets) : est.locus_bin_sets[k].locus_id = l}

BinIdsAt(est, l) ==
    UNION {{est.locus_bin_sets[k].bins[b].id :
               b \in 1..Len(est.locus_bin_sets[k].bins)} : k \in SetsAt(est, l)}

\* C16: analyze_locus(L) of the bin estimator project reaches every
\* GenotypingProject whose bin estimator it is, and no other: afterwards the
\* alleles of each such project's SampleLocusAnnotation at L are keyed by the
\* ids of the bins of the bin set now held at L (by none when there is no
\* set), and all false.
C16_CascadeToEveryProject ==
    (samples.last.op = "analyze_locus" /\ samples.last.l \in ProjectLoci)
        => \A g \in {h \in GenotypingProjects : bin_estimator_id(h) = 1} :
              \A k \in 1..Len(samples.projects[g].locus_annotations) :
                 samples.projects[g].locus_annotations[k].locus_id = samples.last.l
                    => /\ DOMAIN samples.projects[g].locus_annotations[k].alleles
                            = {ToString(id) : id \in BinIdsAt(estimator, samples.last.l)}
                       /\ \A key \in DOMAIN samples.projects[g].locus_annotations[k].alleles :
                             ~samples.projects[g].locus_annotations[k].alleles[key]

\* C17: the estimator holds at most one LocusBinSet per locus after any
\* sequence of calculate_locus_bin_set, calculate_locus_bin_sets and
\* analyze_locus; a recalculation of a locus of the LocusSet raises nothing
\* and leaves a set built of the pooled peaks, or none when there is no peak.
C17_OneBinSetPerLocus ==
    /\ \A l \in Loci : Cardinality(SetsAt(estimator, l)) <= 1
    /\ \A l \in ProjectLoci :
          (\/ samples.last.op = "calculate_locus_bin_sets"
           \/ samples.last.op = "calculate_locus_bin_set" /\ samples.last.l = l)
             => /\ samples.last.result = "ok"
                /\ Cardinality(SetsAt(estimator, l))
                      = IF estimator.pool[l] = << >> THEN 0 ELSE 1
                /\ \A k \in SetsAt(estimator, l) :
                      [b \in 1..Len(estimator.locus_bin_sets[k].bins) |->
                          estimator.locus_bin_sets[k].bins[b].base_size]
                         = BinSizes(estimator.pool[l],
                                    EstimatorParams.min_peak_frequency)

\* The bin set of a locus whose pool had been emptied was recalculated: the
\* locus has no set, the other locus has one, and bins have been replaced.
C17_Witness ==
    /\ samples.last.op = "calculate_locus_bin_set"
    /\ samples.last.result = "ok"
    /\ samples.last.l \in ProjectLoci
    /\ estimator.pool[samples.last.l] = << >>
    /\ SetsAt(estimator, samples.last.l) = {}
    /\ \E l \in ProjectLoci : Cardinality(SetsAt(estimator, l)) = 1
    /\ estimator.next_bin_id > AnalyzedEstimator.next_bin_id

(***************************************************************************)
(* Samples are added to the genotyping projects.                           *)
(***************************************************************************)
NumSamples == 2

Samples == 1..NumSamples

\* A slip: every channel linked to the sample that has a locus.
sample_channel_ids_any_locus(g, sample_id) ==
    SortedSeq({c \in 1..Len(SampleChannels) :
                  /\ SampleChannels[c].sample_id = sample_id
                  /\ SampleChannels[c].locus_id # 0})

\* The channels linked to a sample whose locus is in the project's LocusSet.
sample_channel_ids(g, sample_id) ==
    SortedSeq({c \in 1..Len(SampleChannels) :
                  /\ SampleChannels[c].sample_id = sample_id
                  /\ SampleChannels[c].locus_id \in locus_set(g)})

\* The channel the database finds for an id sent as str(id).
channel_of(channel_id) ==
    CHOOSE c \in 1..Len(SampleChannels) : ToString(c) = channel_id

\* bulk_create_channel_annotations(channel_ids): a second row of a channel
\* is refused by _project_channel_uc.
bulk_create_channel_annotations(project, channel_ids) ==
    IF \/ \E j, k \in 1..Len(channel_ids) : j # k /\ channel_ids[j] = channel_ids[k]
       \/ \E j \in 1..Len(channel_ids), k \in 1..Len(project.channel_annotations) :
             project.channel_annotations[k].channel_id = channel_ids[j]
    THEN [project EXCEPT !.result = "IntegrityError"]
    ELSE [project EXCEPT !.channel_annotations =
            @ \o [k \in 1..Len(channel_ids) |->
                    [channel_id |-> channel_ids[k], annotated_peaks |-> << >>]]]

\* add_channels, lines 220-240, on channels whose locus is in the LocusSet:
\* the parameters of the locus of every channel are marked stale.
marked_stale(project, channel_ids) ==
    [project EXCEPT !.stale =
        [l \in DOMAIN @ |->
            IF \E k \in 1..Len(channel_ids) :
                  SampleChannels[channel_of(channel_ids[k])].locus_id = l
            THEN [scanning_parameters_stale |-> TRUE,
                  filter_parameters_stale |-> TRUE]
            ELSE @[l]]]

\* GenotypingProject.add_channels(channel_ids, block_commit=True)
add_channels(project, channel_ids) ==
    bulk_create_channel_annotations(
        marked_stale(project, channel_ids),
        [k \in 1..Len(channel_ids) |-> channel_of(channel_ids[k])])

\* self.sample_annotations.append(ProjectSampleAnnotations(sample_id)): a
\* second row of a sample is refused by _project_sample_uc.
append_sample_annotation(project, sample_id) ==
    IF \E k \in 1..Len(project.sample_annotations) :
          project.sample_annotations[k] = sample_id
    THEN [project EXCEPT !.result = "IntegrityError"]
    ELSE [project EXCEPT !.sample_annotations = Append(@, sample_id)]

\* SampleBasedProject.add_sample(sample_id)
SampleBasedProject_add_sample(g, project, sample_id) ==
    IF append_sample_annotation(project, sample_id).result # "ok"
    THEN append_sample_annotation(project, sample_id)
    ELSE add_channels(append_sample_annotation(project, sample_id),
                      [k \in 1..Len(sample_channel_ids(g, sample_id)) |->
                          ToString(sample_channel_ids(g, sample_id)[k])])

\* A SampleLocusAnnotation per locus of the LocusSet, its alleles keyed by
\* the bins the project's bin estimator has at the locus.
seeded_locus_annotations(g, est, sample_id, loci) ==
    [k \in 1..Len(loci) |->
        [sample_id |-> sample_id, locus_id |-> loci[k],
         alleles |-> seeded_alleles(bin_ids(est, bin_estimator_id(g), loci[k])),
         annotated_peaks |-> << >>, reference_run_id |-> 0, flags |-> << >>]]

seed_locus_annotations(g, project, est, sample_id) ==
    IF project.result # "ok" THEN project
    ELSE [project EXCEPT !.locus_annotations =
            @ \o seeded_locus_annotations(g, est, sample_id,
                                          SortedSeq(locus_set(g)))]

\* GenotypingProject.add_sample(sample_id)
GenotypingProject_add_sample(g, project, est, sample_id) ==
    seed_locus_annotations(g, SampleBasedProject_add_sample(g, project, sample_id),
                           est, sample_id)

\* add_samples, lines 433-442: the rows of one sample of a chunk; its
\* channels are put aside for the bulk insert.
RECURSIVE add_chunk_samples(_, _, _, _)
add_chunk_samples(g, project, est, sample_ids) ==
    IF sample_ids = << >> \/ project.result # "ok" THEN project
    ELSE add_chunk_samples(g,
             seed_locus_annotations(g,
                 append_sample_annotation(project, Head(sample_ids)),
                 est, Head(sample_ids)),
             est, Tail(sample_ids))

RECURSIVE chunk_channel_ids(_, _)
chunk_channel_ids(g, sample_ids) ==
    IF sample_ids = << >> THEN << >>
    ELSE sample_channel_ids(g, Head(sample_ids))
            \o chunk_channel_ids(g, Tail(sample_ids))

\* add_samples, lines 429-448: one chunk, flushed and committed.
add_chunk(g, project, est, sample_ids) ==
    IF add_chunk_samples(g, project, est, sample_ids).result # "ok"
    THEN add_chunk_samples(g, project, est, sample_ids)
    ELSE bulk_create_channel_annotations(
             add_chunk_samples(g, project, est, sample_ids),
             chunk_channel_ids(g, sample_ids))

chunk_size == 100

\* add_samples(sample_ids): chunk after chunk; a chunk that raises leaves the
\* chunks before it committed.
RECURSIVE add_samples(_, _, _, _, _)
next_chunk(g, committed, after, est, sample_ids, n) ==
    IF after.result # "ok" THEN [committed EXCEPT !.result = after.result]
    ELSE add_samples(g, after, est, sample_ids, n + 1)

add_samples(g, project, est, sample_ids, n) ==
    IF n * chunk_size >= Len(sample_ids) THEN project
    ELSE next_chunk(g, project,
             add_chunk(g, project, est,
                 SubSeq(sample_ids, n * chunk_size + 1,
                        IF (n + 1) * chunk_size < Len(sample_ids)
                        THEN (n + 1) * chunk_size ELSE Len(sample_ids))),
             est, sample_ids, n)

SampleRequest(op, g, ids) ==
    [op |-> op, g |-> g, l |-> 0, ids |-> ids, result |-> "ok"]

\* project.add_sample(sample_id)
AddSample(g, s) ==
    /\ samples' = [samples EXCEPT
          !.projects[g] =
              IF GenotypingProject_add_sample(g, @, estimator, s).result = "ok"
              THEN GenotypingProject_add_sample(g, @, estimator, s) ELSE @,
          !.last = [SampleRequest("add_sample", g, <<s>>) EXCEPT
              !.result = GenotypingProject_add_sample(
                             g, samples.projects[g], estimator, s).result]]
    /\ UNCHANGED <<gl, running, channel, race, session, projectVars, genotyping, artifact, loop, estimator, best>>

\* project.add_samples(sample_ids)
AddSamples(g, sample_ids) ==
    /\ samples' = [samples EXCEPT
          !.projects[g] =
              [add_samples(g, @, estimator, sample_ids, 0) EXCEPT !.result = "ok"],
          !.last = [SampleRequest("add_samples", g, sample_ids) EXCEPT
              !.result = add_samples(g, samples.projects[g], estimator,
                                     sample_ids, 0).result]]
    /\ UNCHANGED <<gl, running, channel, race, session, projectVars, genotyping, artifact, loop, estimator, best>>

\* A genotyping project without a sample, its loci recalculated or not.
NewGenotypingProject(g, stale) ==
    [channel_annotations |-> << >>,
     sample_annotations |-> << >>,
     locus_annotations |-> << >>,
     stale |-> [l \in locus_set(g) |->
                  [scanning_parameters_stale |-> stale,
                   filter_parameters_stale |-> stale]],
     result |-> "ok"]

SampleBatches == UNION {[1..n -> Samples] : n \in 1..MaxBatch}

InitSamples ==
    /\ InitGateway
    /\ QuietProject
    /\ session = [pc |-> "idle"]
    /\ channel = [pc |-> "idle"]
    /\ race = [pc |-> "idle"]
    /\ genotyping = [pc |-> "idle"]
    /\ artifact = [pc |-> "idle"]
    /\ loop = [pc |-> "idle"]
    /\ best = [pc |-> "idle"]
    /\ estimator = AnalyzedEstimator
    /\ \E stale \in [GenotypingProjects -> BOOLEAN] :
          samples = [projects |-> [g \in GenotypingProjects |->
                                      NewGenotypingProject(g, stale[g])],
                     last |-> SampleRequest("none", 0, << >>)]

NextSamples ==
    \/ \E g \in GenotypingProjects, s \in Samples : AddSample(g, s)
    \/ \E g \in GenotypingProjects, sample_ids \in SampleBatches :
          AddSamples(g, sample_ids)

SpecSamples == InitSamples /\ [][NextSamples]_vars

(***************************************************************************)
(* Properties of the addition of samples.                                  *)
(***************************************************************************)
LinkedChannels(g, s) ==
    {c \in 1..Len(SampleChannels) :
        /\ SampleChannels[c].sample_id = s
        /\ SampleChannels[c].locus_id \in locus_set(g)}

\* The rows a table has gained.
Gained(old, new) == SubSeq(new, Len(old) + 1, Len(new))

\* What add_sample(s) added to a project.
AddedSample(g, s, old, new) ==
    /\ new.sample_annotations = Append(old.sample_annotations, s)
    /\ SubSeq(new.channel_annotations, 1, Len(old.channel_annotations))
          = old.channel_annotations
    /\ Len(Gained(old.channel_annotations, new.channel_annotations))
          = Cardinality(LinkedChannels(g, s))
    /\ {new.channel_annotations[k].channel_id :
           k \in (Len(old.channel_annotations) + 1)..Len(new.channel_annotations)}
          = LinkedChannels(g, s)
    /\ SubSeq(new.locus_annotations, 1, Len(old.locus_annotations))
          = old.locus_annotations
    /\ Len(Gained(old.locus_annotations, new.locus_annotations))
          = Cardinality(locus_set(g))
    /\ \A l \in locus_set(g) :
          \E k \in (Len(old.locus_annotations) + 1)..Len(new.locus_annotations) :
             /\ new.locus_annotations[k].sample_id = s
             /\ new.locus_annotations[k].locus_id = l
             /\ DOMAIN new.locus_annotations[k].alleles
                   = {ToString(id) :
                         id \in bin_ids(estimator, bin_estimator_id(g), l)}
             /\ \A key \in DOMAIN new.locus_annotations[k].alleles :
                   ~new.locus_annotations[k].alleles[key]

\* C18: after add_sample(s) the project holds a ProjectSampleAnnotations row
\* for s, a channel annotation for every channel linked to s whose locus is
\* in the LocusSet and for no other channel of s, and one SampleLocusAnnotation
\* per locus of the LocusSet, its alleles keyed by the bin ids known at the
\* locus and all false.
C18_AddSampleSeeds ==
    [][(samples'.last.op = "add_sample" /\ samples'.last.result = "ok")
          => AddedSample(samples'.last.g, samples'.last.ids[1],
                         samples.projects[samples'.last.g],
                         samples'.projects[samples'.last.g])]_vars

\* The first sample, which has a channel at a locus outside the LocusSet,
\* was added to the first project after the second sample: its two channels
\* at loci of the set are annotated and its alleles seeded with known bins.
C18_Witness ==
    /\ samples.last.op = "add_sample"
    /\ samples.last.result = "ok"
    /\ samples.last.g = 1
    /\ samples.last.ids = <<1>>
    /\ samples.projects[1].sample_annotations = <<2, 1>>
    /\ Len(samples.projects[1].channel_annotations) = 3
    /\ Len(samples.projects[1].locus_annotations) = 4
    /\ DOMAIN samples.projects[1].locus_annotations[3].alleles # {}

\* add_sample for each sample of the list, in turn.
RECURSIVE add_each_sample(_, _, _, _)
add_each_sample(g, project, est, sample_ids) ==
    IF sample_ids = << >> THEN project
    ELSE add_each_sample(g,
             GenotypingProject_add_sample(g, project, est, Head(sample_ids)),
             est, Tail(sample_ids))

\* C19: add_samples([s1, .., sn]) leaves the project as add_sample(s1), ..,
\* add_sample(sn) would: the same sample annotations, channel annotations,
\* seeded locus annotations and staleness flags of the loci.
C19_BatchAsSequence ==
    [][(samples'.last.op = "add_samples" /\ samples'.last.result = "ok")
          => samples'.projects[samples'.last.g]
                = add_each_sample(samples'.last.g,
                                  samples.projects[samples'.last.g],
                                  estimator, samples'.last.ids)]_vars

(***************************************************************************)
(* The choice of the reference run of a sample at a locus.                 *)
(***************************************************************************)
MaxRuns == 3

DefaultOffscaleThreshold == 32000
DefaultUnusableSqLimit == 10
DefaultSizingQuality == 1000

\* The annotated peaks a run may hold: none, a peak in a bin, a taller one,
\* a taller one outside every bin, an offscale one.
RunPeaks ==
    {<< >>,
     <<[peak_height |-> 400, in_bin |-> TRUE]>>,
     <<[peak_height |-> 900, in_bin |-> TRUE], [peak_height |-> 400, in_bin |-> TRUE]>>,
     <<[peak_height |-> 900, in_bin |-> FALSE]>>,
     <<[peak_height |-> 40000, in_bin |-> TRUE]>>}

\* The channel annotations of the sample at the locus, each with the sizing
\* quality of its well and the limit of the well's ladder.
Runs ==
    [sizing_quality : {5, DefaultUnusableSqLimit, DefaultSizingQuality},
     unusable_sq_limit : {DefaultUnusableSqLimit},
     annotated_peaks : RunPeaks]

\* A slip: a run at the limit is taken for usable.
usable_runs_at_limit(runs) ==
    SortedSeq({k \in 1..Len(runs) :
                  runs[k].sizing_quality <= runs[k].unusable_sq_limit})

\* get_best_run, lines 1309-1310: the runs of wells sized well enough.
usable_runs(runs) ==
    SortedSeq({k \in 1..Len(runs) :
                  runs[k].sizing_quality < runs[k].unusable_sq_limit})

\* get_best_run, lines 1320-1335: the height of the tallest peak that is in a
\* bin and below the offscale threshold, 0 when there is none.
max_peak_height(peaks, offscale_threshold) ==
    MaxOf({0} \cup {peaks[k].peak_height :
                       k \in {j \in 1..Len(peaks) :
                                 /\ peaks[j].peak_height < offscale_threshold
                                 /\ peaks[j].in_bin}})

\* A slip: the first usable run is kept whatever the later ones hold.
best_annotation_first(runs, usable, found) ==
    IF usable = << >> THEN found ELSE Head(usable)

\* get_best_run, lines 1312-1338: the loop over the usable runs; 0 stands
\* for None.
RECURSIVE best_annotation(_, _, _)
best_annotation(runs, usable, found) ==
    IF usable = << >> THEN found
    ELSE best_annotation(runs, Tail(usable),
             IF found = 0 THEN Head(usable)
             ELSE IF max_peak_height(runs[Head(usable)].annotated_peaks,
                                     DefaultOffscaleThreshold)
                       > max_peak_height(runs[found].annotated_peaks,
                                         DefaultOffscaleThreshold)
                  THEN Head(usable)
                  ELSE found)

\* GenotypingProject.get_best_run(sample_id, locus_id)
get_best_run(runs) == best_annotation(runs, usable_runs(runs), 0)

\* project.get_best_run(sample_id, locus_id)
GetBestRun ==
    /\ best.pc = "called"
    /\ best' = [best EXCEPT !.pc = "returned",
                            !.result = get_best_run(best.runs)]
    /\ UNCHANGED <<gl, running, channel, race, session, projectVars, genotyping, artifact, loop, estimator, samples>>

InitBestRun ==
    /\ InitGateway
    /\ QuietProject
    /\ session = [pc |-> "idle"]
    /\ channel = [pc |-> "idle"]
    /\ race = [pc |-> "idle"]
    /\ genotyping = [pc |-> "idle"]
    /\ artifact = [pc |-> "idle"]
    /\ loop = [pc |-> "idle"]
    /\ estimator = [pc |-> "idle"]
    /\ samples = [pc |-> "idle"]
    /\ \E runs \in UNION {[1..n -> Runs] : n \in 0..MaxRuns} :
          best = [pc |-> "called", runs |-> runs, result |-> 0]

SpecBestRun == InitBestRun /\ [][GetBestRun]_vars

\* C20: get_best_run never returns an annotation whose well has a
\* sizing_quality at or above unusable_sq_limit of its ladder, however tall
\* its peaks, and it returns none exactly when every candidate is unusable or
\* there is no candidate.
C20_BestRunUsable ==
    best.pc = "returned"
        => /\ best.result # 0
                => /\ best.result \in 1..Len(best.runs)
                   /\ best.runs[best.result].sizing_quality
                         < best.runs[best.result].unusable_sq_limit
           /\ best.result = 0
                <=> \A k \in 1..Len(best.runs) :
                       best.runs[k].sizing_quality >= best.runs[k].unusable_sq_limit

\* A run was returned although an unusable run of the sample holds a taller
\* peak in a bin.
C20_Witness ==
    /\ best.pc = "returned"
    /\ best.result # 0
    /\ \E k \in 1..Len(best.runs) :
          /\ best.runs[k].sizing_quality >= best.runs[k].unusable_sq_limit
          /\ \E p \in 1..Len(best.runs[k].annotated_peaks) :
                /\ best.runs[k].annotated_peaks[p].in_bin
                /\ best.runs[k].annotated_peaks[p].peak_height = 900
          /\ \A p \in 1..Len(best.runs[best.result].annotated_peaks) :
                best.runs[best.result].annotated_peaks[p].peak_height < 900

\* The peaks of a run that get_best_run compares: in a bin and below the
\* offscale threshold.
ComparedPeaks(run) ==
    {k \in 1..Len(run.annotated_peaks) :
        /\ run.annotated_peaks[k].in_bin
        /\ run.annotated_peaks[k].peak_height < DefaultOffscaleThreshold}

\* C21: the run returned by get_best_run holds, among its peaks that are in
\* a bin and below offscale_threshold, a peak at least as tall as any such
\* peak of any usable run of the sample at the locus, for any number of runs
\* in any order.
C21_BestRunTallest ==
    best.pc = "returned"
        => \A a \in 1..Len(best.runs) :
              best.runs[a].sizing_quality < best.runs[a].unusable_sq_limit
                 => /\ best.result \in 1..Len(best.runs)
                    /\ \A p \in ComparedPeaks(best.runs[a]) :
                          \E q \in ComparedPeaks(best.runs[best.result]) :
                             best.runs[best.result].annotated_peaks[q].peak_height
                                >= best.runs[a].annotated_peaks[p].peak_height

\* The last of three usable runs was returned: it holds the tallest compared
\* peak, the first run holds a lower one and the second none.
C21_Witness ==
    /\ best.pc = "returned"
    /\ Len(best.runs) = 3
    /\ best.result = 3
    /\ \A a \in 1..3 : best.runs[a].sizing_quality < best.runs[a].unusable_sq_limit
    /\ ComparedPeaks(best.runs[1]) # {}
    /\ ComparedPeaks(best.runs[2]) = {}
    /\ \E q \in ComparedPeaks(best.runs[3]) :
          best.runs[3].annotated_peaks[q].peak_height = 900

(***************************************************************************)
(* GenotypingProject.analyze_samples: the sample-level calls of one locus. *)
(* A sample-locus annotation carries the channel annotations of its        *)
(* (sample, locus) as runs; reference_run is an index into them, 0 for     *)
(* None.  A dictionary of flags is the set of its keys that hold true once *)
(* the code has written every key.  Heights relative to the tallest peak   *)
(* and their limit are in hundredths.                                      *)
(***************************************************************************)

\* GenotypingLocusParams, the column defaults.
GenotypingParams ==
    [soft_artifact_sd_limit |-> 3, hard_artifact_sd_limit |-> 1,
     offscale_threshold |-> DefaultOffscaleThreshold,
     bleedthrough_filter_limit |-> 2, crosstalk_filter_limit |-> 2,
     relative_peak_height_limit |-> 1, absolute_peak_height_limit |-> 50,
     failure_threshold |-> 500]

\* An annotated peak of a channel annotation of a genotyping project.
GenotypedPeak(index, height, relative, contribution, bleedthrough, bin) ==
    [peak_index |-> index, peak_height |-> height,
     relative_peak_height |-> relative,
     artifact_contribution |-> contribution, artifact_error |-> 0,
     bleedthrough_ratio |-> bleedthrough, crosstalk_ratio |-> 0,
     in_bin |-> bin # 0, bin_id |-> bin, flags |-> {}, probability |-> 0]

\* The peak lists a run may hold: one tall clean peak in bin 1; one clean
\* peak in bin 2 below the failure threshold; a tall peak with a
\* bleedthrough peak; an artifact peak and a tall peak outside every bin;
\* none; a peak in a bin made after the alleles were seeded and a peak below
\* the relative limit.
GenotypedPeaks ==
    {<<GenotypedPeak(1, 900, 100, 0, 0, 1)>>,
     <<GenotypedPeak(1, 400, 100, 0, 0, 2)>>,
     <<GenotypedPeak(1, 900, 100, 0, 0, 1), GenotypedPeak(2, 700, 77, 0, 3, 2)>>,
     <<GenotypedPeak(1, 450, 50, 430, 0, 2), GenotypedPeak(2, 900, 100, 0, 0, 0)>>,
     << >>,
     <<GenotypedPeak(1, 800, 100, 0, 0, 3), GenotypedPeak(2, 650, 0, 0, 0, 1)>>}

\* analyze_samples, lines 1117-1139: the flags of one peak.
peak_flags(peak, locus_params) ==
    {flag \in {"below_relative_threshold", "artifact", "bleedthrough", "crosstalk"} :
        \/ /\ flag = "below_relative_threshold"
           /\ peak.relative_peak_height < locus_params.relative_peak_height_limit
        \/ /\ flag = "artifact"
           /\ peak.peak_height - peak.artifact_contribution
                 - peak.artifact_error * locus_params.hard_artifact_sd_limit
                 < locus_params.absolute_peak_height_limit
        \/ /\ flag = "bleedthrough"
           /\ \/ peak.bleedthrough_ratio > locus_params.bleedthrough_filter_limit
              \/ peak.peak_height * peak.bleedthrough_ratio
                    > locus_params.offscale_threshold
        \/ /\ flag = "crosstalk"
           /\ \/ peak.crosstalk_ratio > locus_params.crosstalk_filter_limit
              \/ peak.peak_height * peak.crosstalk_ratio
                    > locus_params.offscale_threshold}

\* analyze_samples, lines 1114-1141: the peaks of the best run, flagged.
flagged_peaks(peaks, locus_params) ==
    [k \in 1..Len(peaks) |->
        [peaks[k] EXCEPT !.flags = peak_flags(peaks[k], locus_params)]]

\* A slip: failure told from the peaks in a bin only.
sample_failure_in_bin(peaks, locus_params) ==
    ~ \E k \in 1..Len(peaks) :
         /\ peaks[k].in_bin
         /\ peaks[k].peak_height > locus_params.failure_threshold

\* analyze_samples, lines 1143-1146: flags['failure']
sample_failure(peaks, locus_params) ==
    ~ \E k \in 1..Len(peaks) :
         peaks[k].peak_height > locus_params.failure_threshold

\* analyze_samples, lines 1148-1156: flags['offscale']
sample_offscale(peaks, locus_params) ==
    \E k \in 1..Len(peaks) :
       \/ peaks[k].peak_height > locus_params.offscale_threshold
       \/ peaks[k].peak_height * peaks[k].bleedthrough_ratio
             > locus_params.offscale_threshold
       \/ peaks[k].peak_height * peaks[k].crosstalk_ratio
             > locus_params.offscale_threshold

\* analyze_samples, lines 1162-1165: the bins, as keys of the alleles map, of
\* the unflagged peaks in a bin.
called_bins(peaks) ==
    {ToString(peaks[k].bin_id) :
        k \in {j \in 1..Len(peaks) : peaks[j].in_bin /\ peaks[j].flags = {}}}

\* A slip: the calls of an earlier analysis are kept.
called_alleles_kept(alleles, failure, called) ==
    [b \in DOMAIN alleles \cup (IF failure THEN {} ELSE called) |->
        IF b \in DOMAIN alleles /\ alleles[b] THEN TRUE
        ELSE ~failure /\ b \in called]

\* analyze_samples, lines 1160-1165: every key set false, then the called
\* bins set true unless the sample failed at the locus.
called_alleles(alleles, failure, called) ==
    [b \in DOMAIN alleles \cup (IF failure THEN {} ELSE called) |->
        ~failure /\ b \in called]

\* analyze_samples, lines 1113-1165: the annotation given its best run and
\* the flagged peaks of that run; the peaks are shared with the run.
with_reference_run(locus_annotation, run, peaks, locus_params) ==
    [locus_annotation EXCEPT
        !.reference_run = run,
        !.runs[run].annotated_peaks = peaks,
        !.annotated_peaks = peaks,
        !.flags = [failure |-> sample_failure(peaks, locus_params),
                   offscale |-> sample_offscale(peaks, locus_params),
                   manual_curation |-> FALSE],
        !.alleles = called_alleles(@, sample_failure(peaks, locus_params),
                                   called_bins(peaks))]

\* analyze_samples, lines 1110-1168: one annotation given its best run.
analyzed_with(locus_annotation, run, locus_params) ==
    IF run = 0
    THEN [locus_annotation EXCEPT !.reference_run = 0,
                                  !.annotated_peaks = << >>]
    ELSE with_reference_run(locus_annotation, run,
             flagged_peaks(locus_annotation.runs[run].annotated_peaks,
                           locus_params),
             locus_params)

\* GenotypingProject.analyze_samples(locus_id) over the annotations of the
\* project.
analyze_samples(locus_annotations, locus_id, locus_params) ==
    [k \in 1..Len(locus_annotations) |->
        IF locus_annotations[k].locus_id = locus_id
        THEN analyzed_with(locus_annotations[k],
                           get_best_run(locus_annotations[k].runs),
                           locus_params)
        ELSE locus_annotations[k]]

\* project.analyze_samples(locus_id)
AnalyzeSamples ==
    /\ genotyping.pc = "stale"
    /\ genotyping' =
          [genotyping EXCEPT
              !.pc = "analyzed",
              !.locus_annotations =
                  analyze_samples(@, genotyping.locus_id, GenotypingParams)]
    /\ UNCHANGED <<gl, running, channel, race, session, projectVars, loop, estimator, samples, best,
                   artifact>>

\* The runs of a sample at a locus.
GenotypedRuns ==
    [sizing_quality : {5, DefaultSizingQuality},
     unusable_sq_limit : {DefaultUnusableSqLimit},
     annotated_peaks : GenotypedPeaks]

\* A sample-locus annotation as an earlier analysis or a cascade left it.
LocusAnnotation(sample_id, locus_id, runs, alleles, called) ==
    [sample_id |-> sample_id, locus_id |-> locus_id, runs |-> runs,
     reference_run |-> IF called /\ runs # << >> THEN 1 ELSE 0,
     annotated_peaks |-> IF called /\ runs # << >>
                         THEN flagged_peaks(runs[1].annotated_peaks,
                                            GenotypingParams)
                         ELSE << >>,
     flags |-> [failure |-> ~called, offscale |-> FALSE,
                manual_curation |-> called],
     alleles |-> alleles]

\* Sample 1 at locus 1 in every condition, sample 2 at locus 1 with one run,
\* sample 1 at locus 2 with the calls of its own analysis.
InitAnalyzeSamples ==
    /\ InitGateway
    /\ QuietProject
    /\ session = [pc |-> "idle"]
    /\ channel = [pc |-> "idle"]
    /\ race = [pc |-> "idle"]
    /\ loop = [pc |-> "idle"]
    /\ estimator = [pc |-> "idle"]
    /\ samples = [pc |-> "idle"]
    /\ best = [pc |-> "idle"]
    /\ artifact = [pc |-> "idle"]
    /\ \E runs \in UNION {[1..n -> GenotypedRuns] : n \in 0..MaxRuns - 1},
          alleles \in [{"1", "2"} -> BOOLEAN], called \in BOOLEAN :
          genotyping =
             [pc |-> "stale", locus_id |-> 1,
              locus_annotations |->
                 <<LocusAnnotation(1, 1, runs, alleles, called),
                   LocusAnnotation(2, 1,
                       <<[sizing_quality |-> 5,
                          unusable_sq_limit |-> DefaultUnusableSqLimit,
                          annotated_peaks |->
                              <<GenotypedPeak(1, 900, 100, 0, 0, 1),
                                GenotypedPeak(2, 700, 77, 0, 3, 2)>>]>>,
                       [b \in {"1", "2"} |-> FALSE], FALSE),
                   LocusAnnotation(1, 2,
                       <<[sizing_quality |-> 5,
                          unusable_sq_limit |-> DefaultUnusableSqLimit,
                          annotated_peaks |->
                              <<GenotypedPeak(1, 900, 100, 0, 0, 1)>>]>>,
                       [b \in {"1"} |-> TRUE], TRUE)>>]

SpecAnalyzeSamples == InitAnalyzeSamples /\ [][AnalyzeSamples]_vars

\* The annotations of the analysed locus that have a best run.
AnalyzedWithBestRun ==
    {k \in 1..Len(genotyping.locus_annotations) :
        /\ genotyping.locus_annotations[k].locus_id = genotyping.locus_id
        /\ genotyping.locus_annotations[k].reference_run # 0}

\* C22: after analyze_samples(L), an annotation at L with a best run none of
\* whose peaks is taller than failure_threshold has flags.failure true and
\* every allele false, whatever bins its peaks are in; with a taller peak
\* flags.failure is false.
C22_FailureDeterminism ==
    genotyping.pc = "analyzed"
        => \A k \in AnalyzedWithBestRun :
              IF \E p \in 1..Len(genotyping.locus_annotations[k].annotated_peaks) :
                    genotyping.locus_annotations[k].annotated_peaks[p].peak_height
                       > GenotypingParams.failure_threshold
              THEN ~genotyping.locus_annotations[k].flags.failure
              ELSE /\ genotyping.locus_annotations[k].flags.failure
                   /\ \A b \in DOMAIN genotyping.locus_annotations[k].alleles :
                         ~genotyping.locus_annotations[k].alleles[b]

\* Sample 1 failed at the locus on an unflagged peak in bin 2 that is below
\* the failure threshold.
C22_Witness ==
    /\ genotyping.pc = "analyzed"
    /\ 1 \in AnalyzedWithBestRun
    /\ genotyping.locus_annotations[1].flags.failure
    /\ \E p \in 1..Len(genotyping.locus_annotations[1].annotated_peaks) :
          /\ genotyping.locus_annotations[1].annotated_peaks[p].in_bin
          /\ genotyping.locus_annotations[1].annotated_peaks[p].flags = {}
    /\ "2" \in DOMAIN genotyping.locus_annotations[1].alleles

\* C23: after analyze_samples(L), for a non-failed annotation at L with a
\* best run and every bin id b, alleles[b] is true exactly when the
\* annotation has a peak in bin b with in_bin true and no true flag; a call
\* of an earlier analysis does not survive.
C23_AllelesFromUnflaggedPeaks ==
    genotyping.pc = "analyzed"
        => \A k \in AnalyzedWithBestRun :
              ~genotyping.locus_annotations[k].flags.failure
                 => \A b \in 1..MaxBinId :
                       (/\ ToString(b) \in DOMAIN genotyping.locus_annotations[k].alleles
                        /\ genotyping.locus_annotations[k].alleles[ToString(b)])
                          <=> \E p \in 1..Len(genotyping.locus_annotations[k].annotated_peaks) :
                                 /\ genotyping.locus_annotations[k].annotated_peaks[p].in_bin
                                 /\ genotyping.locus_annotations[k].annotated_peaks[p].bin_id = b
                                 /\ genotyping.locus_annotations[k].annotated_peaks[p].flags = {}

\* Sample 1 is called at bin 1 only; its peak in bin 2 is flagged and bin 2
\* is a key of the map.
C23_Witness ==
    /\ genotyping.pc = "analyzed"
    /\ 1 \in AnalyzedWithBestRun
    /\ ~genotyping.locus_annotations[1].flags.failure
    /\ genotyping.locus_annotations[1].alleles["1"]
    /\ ~genotyping.locus_annotations[1].alleles["2"]
    /\ \E p \in 1..Len(genotyping.locus_annotations[1].annotated_peaks) :
          /\ genotyping.locus_annotations[1].annotated_peaks[p].bin_id = 2
          /\ genotyping.locus_annotations[1].annotated_peaks[p].flags # {}

(***************************************************************************)
(* GenotypingProject.probabilistic_peak_annotation.  A probability is kept *)
(* in hundredths and a quotient is rounded down to a hundredth; the        *)
(* division of every allele count by the total of its locus leaves the     *)
(* quotient of line 1257 as it is and is left out.                         *)
(***************************************************************************)

\* GenotypingProject.probability_threshold, the column default, and 1.
Probability == [threshold |-> 50, one |-> 100]

\* Lines 1189, 1212, 1229, 1235, 1275: the annotations the call works on.
scored(locus_annotation) ==
    /\ locus_annotation.annotated_peaks # << >>
    /\ ~locus_annotation.flags.failure

\* Lines 1191-1194: 1 for a peak in a bin with no true flag, else 0.
initial_probability(peak) ==
    [peak EXCEPT !.probability =
        IF peak.in_bin /\ peak.flags = {} THEN Probability.one ELSE 0]

\* A slip: every peak starts at the threshold.
initial_probabilities_at_threshold(locus_annotation) ==
    [locus_annotation EXCEPT
        !.annotated_peaks =
            [k \in 1..Len(@) |->
                [@[k] EXCEPT !.probability = Probability.threshold]]]

\* Lines 1188-1195: the peaks of the annotations the call works on.
initial_probabilities(locus_annotation) ==
    IF scored(locus_annotation)
    THEN [locus_annotation EXCEPT
             !.annotated_peaks =
                 [k \in 1..Len(@) |-> initial_probability(@[k])]]
    ELSE locus_annotation

\* Lines 1210-1216: allele_counts[locus_id][bin_id]
allele_count(locus_annotations, locus_id, bin_id, threshold) ==
    Cardinality(
        {c \in {<<k, p>> : k \in 1..Len(locus_annotations), p \in 1..MaxPeaks} :
            /\ locus_annotations[c[1]].locus_id = locus_id
            /\ scored(locus_annotations[c[1]])
            /\ c[2] <= Len(locus_annotations[c[1]].annotated_peaks)
            /\ locus_annotations[c[1]].annotated_peaks[c[2]].in_bin
            /\ locus_annotations[c[1]].annotated_peaks[c[2]].flags = {}
            /\ locus_annotations[c[1]].annotated_peaks[c[2]].probability >= threshold
            /\ locus_annotations[c[1]].annotated_peaks[c[2]].bin_id = bin_id})

\* Lines 1230-1232: the peaks of an annotation at or above the threshold.
called_count(peaks, threshold) ==
    Cardinality({p \in 1..Len(peaks) : peaks[p].probability >= threshold})

\* A slip: the largest count over the annotations of every sample.
sample_moi_any_sample(locus_annotations, sample_id, threshold) ==
    MaxOf({0} \cup
          {called_count(locus_annotations[k].annotated_peaks, threshold) :
              k \in {j \in 1..Len(locus_annotations) :
                        scored(locus_annotations[j])}})

\* Lines 1227-1232: the moi of a sample.
sample_moi(locus_annotations, sample_id, threshold) ==
    MaxOf({0} \cup
          {called_count(locus_annotations[k].annotated_peaks, threshold) :
              k \in {j \in 1..Len(locus_annotations) :
                        /\ locus_annotations[j].sample_id = sample_id
                        /\ scored(locus_annotations[j])}})

\* A slip: a peak is a possible artifact whatever its probability, so a
\* peak that fell below the threshold is estimated again.
possible_artifact_at_any_probability(peak, locus_params, threshold) ==
    /\ peak.in_bin /\ peak.flags = {}
    /\ peak.peak_height - peak.artifact_contribution
          - peak.artifact_error * locus_params.soft_artifact_sd_limit
          <= locus_params.absolute_peak_height_limit

\* Lines 1244-1247: a peak above the threshold that the soft limit leaves
\* at or below the absolute limit.
possible_artifact(peak, locus_params, threshold) ==
    /\ peak.probability > threshold
    /\ peak.peak_height - peak.artifact_contribution
          - peak.artifact_error * locus_params.soft_artifact_sd_limit
          <= locus_params.absolute_peak_height_limit

\* Lines 1251-1255: the frequency of the bin of each peak times the
\* probability of the peak, 0 for a peak that is not above the threshold.
peak_freqs(locus_annotations, locus_id, peaks, threshold) ==
    [p \in 1..Len(peaks) |->
        [peak_height |->
            IF peaks[p].probability > threshold
            THEN allele_count(locus_annotations, locus_id, peaks[p].bin_id,
                              threshold) * peaks[p].probability
            ELSE 0]]

RECURSIVE Power(_, _)
Power(x, n) == IF n = 0 THEN 1 ELSE x * Power(x, n - 1)

\* Lines 1256-1258: new_probs[peak_index] from the sum over the other peaks
\* and the peak's own term.
new_probability(others, this, moi) ==
    ((Power(others + this, moi) - Power(others, moi)) * Probability.one)
        \div Power(others + this, moi)

\* Lines 1249-1258 for the peak at p.
new_prob(freqs, p, moi) ==
    new_probability(SumHeights(freqs) - freqs[p].peak_height,
                    freqs[p].peak_height, moi)

\* Lines 1243-1266: the peaks of one annotation after the cycle.
cycled_peaks(peaks, freqs, moi, locus_params, threshold) ==
    [p \in 1..Len(peaks) |->
        IF possible_artifact(peaks[p], locus_params, threshold)
        THEN [peaks[p] EXCEPT !.probability = new_prob(freqs, p, moi)]
        ELSE peaks[p]]

\* Lines 1234-1266: one annotation after the cycle.
cycled_annotation(locus_annotations, k, locus_params, threshold) ==
    IF scored(locus_annotations[k])
    THEN [locus_annotations[k] EXCEPT
             !.annotated_peaks =
                 cycled_peaks(@,
                     peak_freqs(locus_annotations, locus_annotations[k].locus_id,
                                @, threshold),
                     sample_moi(locus_annotations, locus_annotations[k].sample_id,
                                threshold),
                     locus_params, threshold)]
    ELSE locus_annotations[k]

\* Lines 1203-1266: every annotation after one cycle; the counts and the moi
\* are taken before any probability of the cycle is written.
cycled(locus_annotations, locus_params, threshold) ==
    [k \in 1..Len(locus_annotations) |->
        cycled_annotation(locus_annotations, k, locus_params, threshold)]

\* A slip: any new probability that differs from the old one asks for
\* another cycle.
alleles_changed_on_any_change(before, after, locus_params, threshold) ==
    \E k \in 1..Len(before) :
       \E p \in 1..Len(before[k].annotated_peaks) :
          after[k].annotated_peaks[p].probability
             # before[k].annotated_peaks[p].probability

\* Lines 1263-1264: a new probability fell below the threshold.
alleles_changed(before, after, locus_params, threshold) ==
    \E k \in 1..Len(before) :
       /\ scored(before[k])
       /\ \E p \in 1..Len(before[k].annotated_peaks) :
             /\ possible_artifact(before[k].annotated_peaks[p], locus_params,
                                  threshold)
             /\ after[k].annotated_peaks[p].probability < threshold

\* Lines 1275-1279: the alleles of an annotation the call works on.
alleles_from_peaks(locus_annotation, threshold) ==
    [locus_annotation EXCEPT
        !.alleles =
            [b \in DOMAIN @ \cup
                   {ToString(locus_annotation.annotated_peaks[p].bin_id) :
                       p \in {q \in 1..Len(locus_annotation.annotated_peaks) :
                                 locus_annotation.annotated_peaks[q].probability
                                    >= threshold}} |->
                \E p \in 1..Len(locus_annotation.annotated_peaks) :
                   /\ locus_annotation.annotated_peaks[p].probability >= threshold
                   /\ ToString(locus_annotation.annotated_peaks[p].bin_id) = b]]

\* A slip: the alleles are left as analyze_samples called them.
rebuilt_alleles_kept(locus_annotation, threshold) == locus_annotation

\* Lines 1273-1279: every key false, then the bin of each peak at or above
\* the threshold true.
rebuilt_alleles(locus_annotation, threshold) ==
    IF scored(locus_annotation)
    THEN alleles_from_peaks(locus_annotation, threshold)
    ELSE [locus_annotation EXCEPT !.alleles = [b \in DOMAIN @ |-> FALSE]]

\* Lines 1188-1201: the probabilities are initialised.
ProbabilityInit ==
    /\ genotyping.pc = "called"
    /\ genotyping' =
          [genotyping EXCEPT
              !.pc = "cycling",
              !.locus_annotations =
                  [k \in 1..Len(@) |-> initial_probabilities(@[k])],
              !.alleles_changed = TRUE,
              !.cycles = 0]
    /\ UNCHANGED <<gl, running, channel, race, session, projectVars, loop, estimator, samples, best,
                   artifact>>

\* Lines 1203-1266: one cycle of the loop.
ProbabilityCycle ==
    /\ genotyping.pc = "cycling"
    /\ genotyping.alleles_changed
    /\ genotyping' =
          [genotyping EXCEPT
              !.cycles = @ + 1,
              !.moi = [s \in DOMAIN @ |->
                          sample_moi(genotyping.locus_annotations, s,
                                     genotyping.threshold)],
              !.locus_annotations =
                  cycled(@, GenotypingParams, genotyping.threshold),
              !.alleles_changed =
                  alleles_changed(genotyping.locus_annotations,
                      cycled(genotyping.locus_annotations, GenotypingParams,
                             genotyping.threshold),
                      GenotypingParams, genotyping.threshold)]
    /\ UNCHANGED <<gl, running, channel, race, session, projectVars, loop, estimator, samples, best,
                   artifact>>

\* Lines 1268-1283: the alleles are rebuilt and the call returns.
ProbabilityReturn ==
    /\ genotyping.pc = "cycling"
    /\ ~genotyping.alleles_changed
    /\ genotyping' =
          [genotyping EXCEPT
              !.pc = "returned",
              !.locus_annotations =
                  [k \in 1..Len(@) |->
                      rebuilt_alleles(@[k], genotyping.threshold)]]
    /\ UNCHANGED <<gl, running, channel, race, session, projectVars, loop, estimator, samples, best,
                   artifact>>

\* The peaks of the one run of a sample at a locus: a called peak in bin 1;
\* the same with a possible artifact in bin 2; a peak below the failure
\* threshold; none; a called peak with a bleedthrough peak; a possible
\* artifact alone; two called peaks.
ScoredPeaks ==
    {<<GenotypedPeak(1, 900, 100, 0, 0, 1)>>,
     <<GenotypedPeak(1, 900, 100, 0, 0, 1), GenotypedPeak(2, 300, 33, 250, 0, 2)>>,
     <<GenotypedPeak(1, 400, 100, 0, 0, 1)>>,
     << >>,
     <<GenotypedPeak(1, 900, 100, 0, 0, 1), GenotypedPeak(2, 700, 77, 0, 3, 2)>>,
     <<GenotypedPeak(1, 600, 100, 550, 0, 1)>>,
     <<GenotypedPeak(1, 900, 100, 0, 0, 2), GenotypedPeak(2, 800, 88, 0, 0, 1)>>}

\* The annotation of a sample at a locus as analyze_samples leaves it for
\* the one run of the sample there.
AnalyzedAnnotation(sample_id, locus_id, peaks, keys) ==
    analyzed_with(
        LocusAnnotation(sample_id, locus_id,
            <<[sizing_quality |-> 5,
               unusable_sq_limit |-> DefaultUnusableSqLimit,
               annotated_peaks |-> peaks]>>,
            [b \in keys |-> FALSE], FALSE),
        1, GenotypingParams)

\* The thresholds a project may be given: the column default and 0.75.
Thresholds == {Probability.threshold, 75}

\* The peaks of the first sample at the second locus, where no other sample
\* is analysed: none, two called peaks, or two called peaks that are both
\* possible artifacts.
SecondLocusPeaks ==
    {<< >>,
     <<GenotypedPeak(1, 900, 100, 0, 0, 2), GenotypedPeak(2, 800, 88, 0, 0, 1)>>,
     <<GenotypedPeak(1, 600, 100, 550, 0, 2), GenotypedPeak(2, 590, 98, 540, 0, 1)>>}

\* The annotations of the project as analyze_samples leaves them.
AnalyzedAnnotations(peaks, second, keys) ==
    [s \in 1..3 |-> AnalyzedAnnotation(s, 1, peaks[s], keys)]
        \o (IF second = << >> THEN << >>
            ELSE <<AnalyzedAnnotation(1, 2, second, keys)>>)

\* Three samples analysed at locus 1; the first may be analysed at locus 2
\* as well; the project may have one bin or two.
InitProbability ==
    /\ InitGateway
    /\ QuietProject
    /\ session = [pc |-> "idle"]
    /\ channel = [pc |-> "idle"]
    /\ race = [pc |-> "idle"]
    /\ loop = [pc |-> "idle"]
    /\ estimator = [pc |-> "idle"]
    /\ samples = [pc |-> "idle"]
    /\ best = [pc |-> "idle"]
    /\ artifact = [pc |-> "idle"]
    /\ \E peaks \in [1..3 -> ScoredPeaks], second \in SecondLocusPeaks,
          keys \in {{"1"}, {"1", "2"}}, threshold \in Thresholds :
          genotyping =
             [pc |-> "called",
              threshold |-> threshold,
              moi |-> [s \in 1..3 |-> 0],
              cycles |-> 0,
              alleles_changed |-> FALSE,
              locus_annotations |-> AnalyzedAnnotations(peaks, second, keys),
              entry |-> AnalyzedAnnotations(peaks, second, keys)]

NextProbability == ProbabilityInit \/ ProbabilityCycle \/ ProbabilityReturn

SpecProbability == InitProbability /\ [][NextProbability]_vars

\* The annotations the call worked on, as they were at the call.
ScoredAtEntry ==
    {k \in 1..Len(genotyping.entry) :
        /\ genotyping.entry[k].annotated_peaks # << >>
        /\ ~genotyping.entry[k].flags.failure}

\* The peaks of the annotation at k that analyze_samples called.
CalledAtEntry(k) ==
    {p \in 1..Len(genotyping.entry[k].annotated_peaks) :
        /\ genotyping.entry[k].annotated_peaks[p].in_bin
        /\ genotyping.entry[k].annotated_peaks[p].flags = {}}

\* One locus, one bin, one called peak in every non-failed sample and no
\* called peak that the soft limit makes a possible artifact.
SingleBinHomozygous ==
    /\ \A k \in 1..Len(genotyping.entry) :
          /\ genotyping.entry[k].locus_id = 1
          /\ DOMAIN genotyping.entry[k].alleles = {"1"}
          /\ \A p \in 1..Len(genotyping.entry[k].annotated_peaks) :
                genotyping.entry[k].annotated_peaks[p].bin_id \in {0, 1}
    /\ \A k \in ScoredAtEntry :
          /\ Cardinality(CalledAtEntry(k)) = 1
          /\ \A p \in CalledAtEntry(k) :
                genotyping.entry[k].annotated_peaks[p].peak_height
                   - genotyping.entry[k].annotated_peaks[p].artifact_contribution
                   - genotyping.entry[k].annotated_peaks[p].artifact_error
                        * GenotypingParams.soft_artifact_sd_limit
                   > GenotypingParams.absolute_peak_height_limit

\* C24: in a project with a single locus and a single bin where every
\* non-failed sample has exactly one called peak and none is a possible
\* artifact, probabilistic_peak_annotation returns after exactly 1 cycle
\* and every such peak has probability 1.
C24_HomozygousOneCycle ==
    (genotyping.pc = "returned" /\ SingleBinHomozygous)
        => /\ genotyping.cycles = 1
           /\ \A k \in ScoredAtEntry : \A p \in CalledAtEntry(k) :
                 genotyping.locus_annotations[k].annotated_peaks[p].probability
                    = Probability.one

\* The call returned for such a project with two samples called and one
\* failed.
C24_Witness ==
    /\ genotyping.pc = "returned"
    /\ SingleBinHomozygous
    /\ ScoredAtEntry = {1, 2}
    /\ genotyping.entry[3].annotated_peaks # << >>
    /\ genotyping.cycles = 1

\* C25: when probabilistic_peak_annotation returns, the moi of each sample
\* is the largest number, over the sample's non-failed locus annotations
\* with peaks, of peaks whose final probability is at or above
\* probability_threshold, and 0 when the sample has no such annotation.
C25_MoiFromFinalProbabilities ==
    genotyping.pc = "returned"
        => \A s \in DOMAIN genotyping.moi :
              /\ \A k \in ScoredAtEntry :
                    genotyping.locus_annotations[k].sample_id = s
                       => Cardinality(
                              {p \in 1..Len(genotyping.locus_annotations[k].annotated_peaks) :
                                  genotyping.locus_annotations[k].annotated_peaks[p].probability
                                     >= genotyping.threshold})
                             <= genotyping.moi[s]
              /\ \/ genotyping.moi[s] = 0
                 \/ \E k \in ScoredAtEntry :
                       /\ genotyping.locus_annotations[k].sample_id = s
                       /\ Cardinality(
                              {p \in 1..Len(genotyping.locus_annotations[k].annotated_peaks) :
                                  genotyping.locus_annotations[k].annotated_peaks[p].probability
                                     >= genotyping.threshold})
                             = genotyping.moi[s]

\* The call took a second cycle: a called peak of sample 1 fell below the
\* threshold and the sample ends with moi 1.
C25_Witness ==
    /\ genotyping.pc = "returned"
    /\ genotyping.cycles = 2
    /\ Len(genotyping.entry) = 3
    /\ Cardinality(CalledAtEntry(1)) = 2
    /\ genotyping.moi[1] = 1

\* C26: when probabilistic_peak_annotation returns, for every locus
\* annotation and every bin id b of its alleles map, alleles[b] is true
\* exactly when the annotation is non-failed and has a peak in bin b whose
\* final probability is at or above probability_threshold; the keys of the
\* map are those it had at the call.
C26_AllelesFromFinalProbabilities ==
    genotyping.pc = "returned"
        => \A k \in 1..Len(genotyping.locus_annotations) :
              /\ DOMAIN genotyping.locus_annotations[k].alleles
                    = DOMAIN genotyping.entry[k].alleles
              /\ \A b \in DOMAIN genotyping.locus_annotations[k].alleles :
                    genotyping.locus_annotations[k].alleles[b]
                       <=> /\ k \in ScoredAtEntry
                           /\ \E p \in 1..Len(genotyping.locus_annotations[k].annotated_peaks) :
                                 /\ ToString(genotyping.locus_annotations[k].annotated_peaks[p].bin_id) = b
                                 /\ genotyping.locus_annotations[k].annotated_peaks[p].probability
                                       >= genotyping.threshold

\* A call of analyze_samples was withdrawn: the peak of sample 1 in bin 2
\* ended below the threshold and the allele is false, with bin 1 true.
C26_Witness ==
    /\ genotyping.pc = "returned"
    /\ "2" \in DOMAIN genotyping.entry[1].alleles
    /\ genotyping.entry[1].alleles["2"]
    /\ ~genotyping.locus_annotations[1].alleles["2"]
    /\ genotyping.locus_annotations[1].alleles["1"]
    /\ \E p \in CalledAtEntry(1) :
          genotyping.locus_annotations[1].annotated_peaks[p].probability
             < genotyping.threshold

\* The peaks that were called (at or above the threshold) before the step
\* and are below the threshold after it.
DroppedInStep ==
    {c \in {<<k, p>> : k \in 1..Len(genotyping.locus_annotations),
                       p \in 1..MaxPeaks} :
        /\ c[2] <= Len(genotyping.locus_annotations[c[1]].annotated_peaks)
        /\ genotyping.locus_annotations[c[1]].annotated_peaks[c[2]].probability
              >= genotyping.threshold
        /\ genotyping'.locus_annotations[c[1]].annotated_peaks[c[2]].probability
              < genotyping.threshold}

\* C31: the loop of probabilistic_peak_annotation runs another cycle exactly
\* when, in the cycle just finished, a peak that was called received a new
\* probability below probability_threshold; it stops after the first full
\* cycle in which no peak goes from called to not-called.
C31_CycleAgainIffCallDropped ==
    [][/\ genotyping'.cycles = genotyping.cycles + 1
          => (genotyping'.alleles_changed <=> DroppedInStep # {})
       /\ (genotyping.pc = "cycling" /\ genotyping.cycles >= 1)
          => /\ genotyping.alleles_changed
                => /\ genotyping'.pc = "cycling"
                   /\ genotyping'.cycles = genotyping.cycles + 1
             /\ ~genotyping.alleles_changed
                => /\ genotyping'.pc = "returned"
                   /\ genotyping'.cycles = genotyping.cycles]_vars

\* A first cycle withdrew a call and a second one, which withdrew none, was
\* the last.
C31_Witness ==
    /\ genotyping.pc = "returned"
    /\ genotyping.cycles = 2
    /\ \E k \in ScoredAtEntry : \E p \in CalledAtEntry(k) :
          genotyping.locus_annotations[k].annotated_peaks[p].probability
             < genotyping.threshold

\* The loop of lines 1203-1266 is sequential code: a step that can be taken
\* is taken.
SpecProbabilityFair == SpecProbability /\ WF_vars(NextProbability)

\* The number of peaks that are called once the probabilities are
\* initialised.
CalledAfterInit ==
    Cardinality({c \in {<<k, p>> : k \in ScoredAtEntry, p \in 1..MaxPeaks} :
                    c[2] \in CalledAtEntry(c[1])})

\* The positions of the peaks at or above the threshold.
CalledNow(locus_annotations) ==
    {c \in {<<k, p>> : k \in 1..Len(locus_annotations), p \in 1..MaxPeaks} :
        /\ c[2] <= Len(locus_annotations[c[1]].annotated_peaks)
        /\ locus_annotations[c[1]].annotated_peaks[c[2]].probability
              >= genotyping.threshold}

\* C33: probabilistic_peak_annotation terminates on every input: a peak
\* whose probability has fallen below probability_threshold is never
\* re-estimated or called again, so the called peaks only become fewer from
\* cycle to cycle, and the number of cycles is at most 1 plus the number of
\* peaks called after the initialisation.
C33_AnnotationTerminates ==
    /\ <>(genotyping.pc = "returned")
    /\ [](genotyping.cycles <= 1 + CalledAfterInit)
    /\ [][genotyping.pc = "cycling"
            => /\ CalledNow(genotyping'.locus_annotations)
                     \subseteq CalledNow(genotyping.locus_annotations)
               /\ \A k \in 1..Len(genotyping.locus_annotations) :
                     \A p \in 1..Len(genotyping.locus_annotations[k].annotated_peaks) :
                        genotyping.locus_annotations[k].annotated_peaks[p].probability
                              < genotyping.threshold
                           => genotyping'.locus_annotations[k].annotated_peaks[p].probability
                                 = genotyping.locus_annotations[k].annotated_peaks[p].probability]_vars

\* The call returned after a cycle that withdrew a call and one that
\* withdrew none.
C33_Witness ==
    /\ genotyping.pc = "returned"
    /\ genotyping.cycles = 2
    /\ CalledAfterInit >= 2
    /\ CalledNow(genotyping.locus_annotations) # CalledNow(genotyping.entry)
    /\ Cardinality(CalledNow(genotyping.locus_annotations)) < CalledAfterInit

\* The peaks of the annotation at k that count toward the allele
\* frequencies (line 1215) or toward the moi (line 1232).
CountedAsCalled(k) ==
    {p \in 1..Len(genotyping.locus_annotations[k].annotated_peaks) :
        genotyping.locus_annotations[k].annotated_peaks[p].probability
           >= genotyping.threshold}

\* The peaks of the annotation at k among which the possible artifacts are
\* looked for and whose terms enter a new probability (all_peaks, line 1244).
ConsideredAsCalled(k) ==
    {p \in 1..Len(genotyping.locus_annotations[k].annotated_peaks) :
        genotyping.locus_annotations[k].annotated_peaks[p].probability
           > genotyping.threshold}

\* C39: within every cycle of probabilistic_peak_annotation one and the
\* same set of peaks counts as called: every peak counted toward the allele
\* frequencies and the moi is also among the called peaks of the artifact
\* re-estimation, a peak whose probability equals probability_threshold
\* included.
C39_OneCalledSetPerCycle ==
    (genotyping.pc = "cycling" /\ genotyping.alleles_changed)
        => \A k \in 1..Len(genotyping.locus_annotations) :
              scored(genotyping.locus_annotations[k])
                 => CountedAsCalled(k) \subseteq ConsideredAsCalled(k)

(***************************************************************************)
(* ArtifactEstimator: the equations of one estimator of a locus.  The fit  *)
(* of the estimator library is taken from its description: one equation    *)
(* for each parameter set, over the range of the set.  Every call finds    *)
(* the equations of the call before it flushed.                            *)
(***************************************************************************)

MaxEquationId == 12

\* The sizes a client may break at: the start of the locus, three sizes
\* inside it and one beyond its end.
Breakpoints == {100, 120, 150, 180, 210}

\* AE.ArtifactEstimator.generate_estimating_equations: one fitted equation
\* for each parameter set.
fitted_equations(parameter_sets) == parameter_sets

\* A slip: the fitted equations are appended to those of the estimator.
generate_estimating_equations_appended(estimator_row, parameter_sets) ==
    [estimator_row EXCEPT
        !.artifact_equations =
            @ \o [k \in 1..Len(fitted_equations(parameter_sets)) |->
                    [id |-> estimator_row.next_id + k - 1,
                     start_size |-> fitted_equations(parameter_sets)[k].start_size,
                     end_size |-> fitted_equations(parameter_sets)[k].end_size]],
        !.next_id = @ + Len(fitted_equations(parameter_sets))]

\* ArtifactEstimator.generate_estimating_equations: the equations of the
\* estimator are deleted and a new ArtifactEquation row is made for each
\* fitted equation.
generate_estimating_equations(estimator_row, parameter_sets) ==
    [estimator_row EXCEPT
        !.artifact_equations =
            [k \in 1..Len(fitted_equations(parameter_sets)) |->
                [id |-> estimator_row.next_id + k - 1,
                 start_size |-> fitted_equations(parameter_sets)[k].start_size,
                 end_size |-> fitted_equations(parameter_sets)[k].end_size]],
        !.next_id = @ + Len(fitted_equations(parameter_sets))]

\* add_breakpoint, lines 875-879: the parameter sets of the equations.
old_param_sets(artifact_equations) ==
    [k \in 1..Len(artifact_equations) |->
        [start_size |-> artifact_equations[k].start_size,
         end_size |-> artifact_equations[k].end_size]]

\* A slip: a set that starts at the breakpoint is split as well.
split_param_set_from_start(param_set, breakpoint) ==
    IF param_set.start_size <= breakpoint /\ breakpoint < param_set.end_size
    THEN <<[start_size |-> param_set.start_size, end_size |-> breakpoint],
           [start_size |-> breakpoint, end_size |-> param_set.end_size]>>
    ELSE <<param_set>>

\* add_breakpoint, lines 883-895: one parameter set, split at the breakpoint
\* when it is strictly inside.
split_param_set(param_set, breakpoint) ==
    IF param_set.start_size < breakpoint /\ breakpoint < param_set.end_size
    THEN <<[start_size |-> param_set.start_size, end_size |-> breakpoint],
           [start_size |-> breakpoint, end_size |-> param_set.end_size]>>
    ELSE <<param_set>>

\* A slip: the loop keeps only the halves of the set that was split.
RECURSIVE split_param_sets_split_only(_, _)
split_param_sets_split_only(param_sets, breakpoint) ==
    IF param_sets = << >> THEN << >>
    ELSE (IF Len(split_param_set(Head(param_sets), breakpoint)) = 2
          THEN split_param_set(Head(param_sets), breakpoint)
          ELSE << >>)
            \o split_param_sets_split_only(Tail(param_sets), breakpoint)

\* add_breakpoint, lines 881-895: the loop over the old parameter sets.
RECURSIVE split_param_sets(_, _)
split_param_sets(param_sets, breakpoint) ==
    IF param_sets = << >> THEN << >>
    ELSE split_param_set(Head(param_sets), breakpoint)
            \o split_param_sets(Tail(param_sets), breakpoint)

\* ArtifactEstimator.add_breakpoint(breakpoint)
add_breakpoint(estimator_row, breakpoint) ==
    generate_estimating_equations(estimator_row,
        split_param_sets(old_param_sets(estimator_row.artifact_equations),
                         breakpoint))

\* ArtifactEstimator.clear_breakpoints()
clear_breakpoints(estimator_row) ==
    generate_estimating_equations(estimator_row,
        <<[start_size |-> LocusMinBaseLength(estimator_row.locus_id),
           end_size |-> LocusMaxBaseLength(estimator_row.locus_id)]>>)

\* The call, the breakpoint and the equations the call found.
ArtifactRequest(op, breakpoint) ==
    [op |-> op, breakpoint |-> breakpoint,
     found |-> artifact.estimator.artifact_equations]

\* estimator.add_breakpoint(breakpoint)
AddBreakpoint(breakpoint) ==
    /\ artifact.pc = "ready"
    /\ add_breakpoint(artifact.estimator, breakpoint).next_id <= MaxEquationId + 1
    /\ artifact' = [artifact EXCEPT
                       !.estimator = add_breakpoint(@, breakpoint),
                       !.last = ArtifactRequest("add_breakpoint", breakpoint)]
    /\ UNCHANGED <<gl, running, channel, race, session, projectVars, loop, estimator, samples, best,
                   genotyping>>

\* estimator.clear_breakpoints()
ClearBreakpoints ==
    /\ artifact.pc = "ready"
    /\ artifact.estimator.next_id <= MaxEquationId
    /\ artifact' = [artifact EXCEPT
                       !.estimator = clear_breakpoints(@),
                       !.last = ArtifactRequest("clear_breakpoints", 0)]
    /\ UNCHANGED <<gl, running, channel, race, session, projectVars, loop, estimator, samples, best,
                   genotyping>>

\* An estimator of locus 1 or 2 with the one equation over the range of its
\* locus.
InitArtifact ==
    /\ InitGateway
    /\ QuietProject
    /\ session = [pc |-> "idle"]
    /\ channel = [pc |-> "idle"]
    /\ race = [pc |-> "idle"]
    /\ loop = [pc |-> "idle"]
    /\ estimator = [pc |-> "idle"]
    /\ samples = [pc |-> "idle"]
    /\ best = [pc |-> "idle"]
    /\ genotyping = [pc |-> "idle"]
    /\ \E l \in ProjectLoci :
          artifact =
             [pc |-> "ready",
              estimator |->
                 [locus_id |-> l,
                  artifact_equations |->
                     <<[id |-> 1, start_size |-> LocusMinBaseLength(l),
                        end_size |-> LocusMaxBaseLength(l)]>>,
                  next_id |-> 2],
              last |-> [op |-> "none", breakpoint |-> 0, found |-> << >>]]

NextArtifact ==
    \/ \E breakpoint \in Breakpoints : AddBreakpoint(breakpoint)
    \/ ClearBreakpoints

SpecArtifact == InitArtifact /\ [][NextArtifact]_vars

\* The ranges of equations, in their order.
Ranges(artifact_equations) ==
    [k \in 1..Len(artifact_equations) |->
        <<artifact_equations[k].start_size, artifact_equations[k].end_size>>]

\* The equations a call found whose range holds the breakpoint strictly
\* inside.
Containing ==
    {k \in 1..Len(artifact.last.found) :
        /\ artifact.last.found[k].start_size < artifact.last.breakpoint
        /\ artifact.last.breakpoint < artifact.last.found[k].end_size}

\* C27: add_breakpoint(b) splits exactly the one segment that strictly
\* contains b into [start, b) and [b, end) and leaves the ranges of the
\* other segments as they were; from the one equation over
\* [min_base_length, max_base_length] it yields exactly two equations.
C27_BreakpointSplitsOneSegment ==
    artifact.last.op = "add_breakpoint"
        => /\ Cardinality(Containing) <= 1
           /\ Containing = {}
                 => Ranges(artifact.estimator.artifact_equations)
                       = Ranges(artifact.last.found)
           /\ \A k \in Containing :
                 Ranges(artifact.estimator.artifact_equations)
                    = SubSeq(Ranges(artifact.last.found), 1, k - 1)
                      \o <<<<artifact.last.found[k].start_size,
                             artifact.last.breakpoint>>,
                           <<artifact.last.breakpoint,
                             artifact.last.found[k].end_size>>>>
                      \o SubSeq(Ranges(artifact.last.found), k + 1,
                                Len(artifact.last.found))
           /\ (Len(artifact.last.found) = 1 /\ Containing # {})
                 => Len(artifact.estimator.artifact_equations) = 2

\* A breakpoint split the second of three segments.
C27_Witness ==
    /\ artifact.last.op = "add_breakpoint"
    /\ Len(artifact.last.found) = 3
    /\ Containing = {2}
    /\ Len(artifact.estimator.artifact_equations) = 4

\* C28: after clear_breakpoints(), whatever add_breakpoint calls came
\* before, the estimator has exactly one equation, over the locus's
\* [min_base_length, max_base_length], and none of the earlier equations
\* remains.
C28_ClearRestoresOneEquation ==
    artifact.last.op = "clear_breakpoints"
        => /\ Len(artifact.estimator.artifact_equations) = 1
           /\ artifact.estimator.artifact_equations[1].start_size
                 = LocusMinBaseLength(artifact.estimator.locus_id)
           /\ artifact.estimator.artifact_equations[1].end_size
                 = LocusMaxBaseLength(artifact.estimator.locus_id)
           /\ \A k \in 1..Len(artifact.last.found) :
                 artifact.last.found[k].id
                    # artifact.estimator.artifact_equations[1].id

\* clear_breakpoints found three equations.
C28_Witness ==
    /\ artifact.last.op = "clear_breakpoints"
    /\ Len(artifact.last.found) = 3
    /\ Len(artifact.estimator.artifact_equations) = 1

\* The ranges are a partition of the interval of the locus: there is one
\* at least, none is empty, the first starts at min_base_length, each
\* starts where the one before ends and the last ends at max_base_length.
Partition(ranges, locus_id) ==
    /\ Len(ranges) >= 1
    /\ ranges[1][1] = LocusMinBaseLength(locus_id)
    /\ ranges[Len(ranges)][2] = LocusMaxBaseLength(locus_id)
    /\ \A k \in 1..Len(ranges) : ranges[k][1] < ranges[k][2]
    /\ \A k \in 1..(Len(ranges) - 1) : ranges[k][2] = ranges[k + 1][1]

\* The breakpoint of the call is outside the interval of the locus or is a
\* boundary of a segment the call found.
OutsideOrBoundary ==
    \/ artifact.last.breakpoint
          <= LocusMinBaseLength(artifact.estimator.locus_id)
    \/ artifact.last.breakpoint
          >= LocusMaxBaseLength(artifact.estimator.locus_id)
    \/ \E k \in 1..Len(artifact.last.found) :
          \/ artifact.last.found[k].start_size = artifact.last.breakpoint
          \/ artifact.last.found[k].end_size = artifact.last.breakpoint

\* C38: after any sequence of add_breakpoint and clear_breakpoints calls on
\* an estimator that starts with one equation over
\* [min_base_length, max_base_length], the ranges of the equations are a
\* partition of that interval, and add_breakpoint(b) with b outside the
\* interval or on a boundary of a segment leaves the ranges unchanged.
C38_RangesPartitionTheLocus ==
    /\ Partition(Ranges(artifact.estimator.artifact_equations),
                 artifact.estimator.locus_id)
    /\ (artifact.last.op = "add_breakpoint" /\ OutsideOrBoundary)
          => Ranges(artifact.estimator.artifact_equations)
                = Ranges(artifact.last.found)

\* add_breakpoint found three segments and its breakpoint was the boundary
\* between two of them.
C38_Witness ==
    /\ artifact.last.op = "add_breakpoint"
    /\ Len(artifact.last.found) = 3
    /\ artifact.last.found[2].start_size = artifact.last.breakpoint
    /\ Len(artifact.estimator.artifact_equations) = 3

(***************************************************************************)
(* One call on a project, run step by step.  A call is the sequence of the *)
(* steps its code runs, nested calls included; each step acts on the       *)
(* session when it is run.  The project is genotyping project 1 or a plain *)
(* project over the same channels; its channels are channels 1, 2 and 4 of *)
(* SampleChannels, two of them at locus 2.                                 *)
(***************************************************************************)

Step(step, channel_id) == [step |-> step, channel_id |-> channel_id]

\* if not block_commit: db.session.commit()
commit_unless(block_commit) ==
    IF block_commit THEN << >> ELSE <<Step("commit", 0)>>

\* Project.recalculate_channel(channel_annotation_id, rescan_peaks,
\* block_commit)
Project_recalculate_channel_steps(channel_id, block_commit) ==
    <<Step("recalculate_channel", channel_id)>> \o commit_unless(block_commit)

\* GenotypingProject.annotate_channel(channel_annotation)
annotate_channel_steps(channel_id) ==
    <<Step("annotate_bins", channel_id), Step("annotate_artifact", channel_id)>>

\* recalculate_channel of the type of the project, lines 269-293 and
\* 1037-1046.
recalculate_channel_steps(k, channel_id, block_commit) ==
    IF k = "genotyping_project"
    THEN Project_recalculate_channel_steps(channel_id, TRUE)
            \o annotate_channel_steps(channel_id)
            \o commit_unless(block_commit)
    ELSE Project_recalculate_channel_steps(channel_id, block_commit)

\* recalculate_channels, lines 297-298: self.recalculate_channel for each id
\* with block_commit=True.
RECURSIVE each_recalculate_channel_steps(_, _)
each_recalculate_channel_steps(k, channel_ids) ==
    IF channel_ids = << >> THEN << >>
    ELSE recalculate_channel_steps(k, Head(channel_ids), TRUE)
            \o each_recalculate_channel_steps(k, Tail(channel_ids))

\* Project.recalculate_channels(channel_annotation_ids, rescan_peaks,
\* block_commit)
Project_recalculate_channels_steps(k, channel_ids, block_commit) ==
    each_recalculate_channel_steps(k, channel_ids) \o commit_unless(block_commit)

\* recalculate_channels, lines 1052-1053: annotate_channel for each
\* annotation returned.
RECURSIVE each_annotate_channel_steps(_)
each_annotate_channel_steps(channel_ids) ==
    IF channel_ids = << >> THEN << >>
    ELSE annotate_channel_steps(Head(channel_ids))
            \o each_annotate_channel_steps(Tail(channel_ids))

\* recalculate_channels of the type of the project, lines 295-303 and
\* 1048-1058.
recalculate_channels_steps(k, channel_ids, block_commit) ==
    IF k = "genotyping_project"
    THEN Project_recalculate_channels_steps(k, channel_ids, TRUE)
            \o each_annotate_channel_steps(channel_ids)
            \o commit_unless(block_commit)
    ELSE Project_recalculate_channels_steps(k, channel_ids, block_commit)

\* recalculate_locus, lines 321-328: the scanning branch passes
\* block_commit=True, the filter branch leaves block_commit at its default.
recalculate_stale_steps(k, stale, channel_ids) ==
    IF stale.scanning_parameters_stale
    THEN recalculate_channels_steps(k, channel_ids, TRUE)
    ELSE IF stale.filter_parameters_stale
         THEN recalculate_channels_steps(k, channel_ids, FALSE)
         ELSE << >>

\* Project.recalculate_locus(locus_id, block_commit)
recalculate_locus_steps(k, stale, channel_ids, block_commit) ==
    recalculate_stale_steps(k, stale, channel_ids)
        \o <<Step("clear_stale", 0)>>
        \o commit_unless(block_commit)

\* A slip: the sample-level calls are derived before the recalculation.
analyze_locus_steps_samples_first(k, stale, channel_ids, block_commit) ==
    <<Step("analyze_samples", 0)>>
        \o recalculate_locus_steps(k, stale, channel_ids, block_commit)

\* analyze_locus of the type of the project, lines 338-341 and 1097-1100.
analyze_locus_steps(k, stale, channel_ids, block_commit) ==
    recalculate_locus_steps(k, stale, channel_ids, block_commit)
        \o (IF k = "genotyping_project"
            THEN <<Step("analyze_samples", 0)>> ELSE << >>)

\* add_channels, lines 220-242: the parameters of the locus of each channel
\* are marked stale.
each_mark_stale_steps(channel_ids) ==
    [i \in 1..Len(channel_ids) |-> Step("mark_stale", channel_ids[i])]

\* Project.add_channels(channel_ids, block_commit): the annotations are
\* made by bulk_create_channel_annotations with block_commit=True.
Project_add_channels_steps(channel_ids, block_commit) ==
    each_mark_stale_steps(channel_ids)
        \o [i \in 1..Len(channel_ids) |-> Step("create_annotation", channel_ids[i])]
        \o commit_unless(block_commit)

\* add_channels of the type of the project, lines 217-252 and 1074-1083.
add_channels_steps(k, channel_ids, block_commit) ==
    IF k = "genotyping_project"
    THEN Project_add_channels_steps(channel_ids, TRUE)
            \o commit_unless(block_commit)
    ELSE Project_add_channels_steps(channel_ids, block_commit)

\* A step on the annotation of a sample, at a locus or at none (0).
SampleStep(step, sample_id, locus_id) ==
    [step |-> step, channel_id |-> 0, sample_id |-> sample_id,
     locus_id |-> locus_id]

\* SampleBasedProject.add_sample(sample_id, block_commit), lines 410-423:
\* the sample annotation is made and the channels of the sample are added
\* with block_commit=True.
Project_add_sample_steps(k, sample_id, channel_ids, block_commit) ==
    <<SampleStep("create_sample_annotation", sample_id, 0)>>
        \o add_channels_steps(k, channel_ids, TRUE)
        \o commit_unless(block_commit)

\* GenotypingProject.add_sample(sample_id, block_commit), lines 1085-1093:
\* after the call of the base class a locus annotation is appended for each
\* locus of the LocusSet.
add_sample_steps(k, sample_id, channel_ids, loci, block_commit) ==
    Project_add_sample_steps(k, sample_id, channel_ids, block_commit)
        \o [i \in 1..Len(loci) |->
                SampleStep("seed_locus_annotation", sample_id, loci[i])]

\* A peak as the filters of recalculate_channel leave it: in no bin and with
\* no artifact estimate.
FilteredPeak(index, base_size, height) ==
    [peak_index |-> index, base_size |-> base_size, peak_height |-> height,
     relative_peak_height |-> 100, bleedthrough_ratio |-> 0,
     crosstalk_ratio |-> 0, artifact_contribution |-> 0, artifact_error |-> 0,
     in_bin |-> FALSE, bin |-> "", bin_id |-> 0, flags |-> {},
     probability |-> 0]

\* The peaks the scan and the filters leave of a channel of a sized well.
FilteredPeaks(channel_id) ==
    IF channel_id = 2
    THEN <<FilteredPeak(1, 120, 900), FilteredPeak(2, 135, 700)>>
    ELSE <<FilteredPeak(1, 120, 600)>>

\* The bins of the LocusBinSet of the locus that hold the size.
BinsAt(est, locus_id, base_size) ==
    {b \in UNION {{est.locus_bin_sets[k].bins[i] :
                      i \in 1..Len(est.locus_bin_sets[k].bins)} :
                  k \in {j \in 1..Len(est.locus_bin_sets) :
                            est.locus_bin_sets[j].locus_id = locus_id}} :
        /\ b.base_size - b.bin_buffer <= base_size
        /\ base_size <= b.base_size + b.bin_buffer}

\* BinFinder.peak_bin_annotator for one peak: the peak is in the bin whose
\* base_size is within bin_buffer of its size.
binned_peak(peak, bins) ==
    IF bins = {} THEN peak
    ELSE [peak EXCEPT !.in_bin = TRUE,
                      !.bin_id = MaxOf({b.id : b \in bins}),
                      !.bin = ToString(peak.base_size)]

\* BinEstimatorProject.annotate_bins(peaks, locus_id), lines 518-521, with
\* the LocusBinSet of the locus found.
annotate_bins(est, peaks, locus_id) ==
    [p \in 1..Len(peaks) |->
        binned_peak(peaks[p], BinsAt(est, locus_id, peaks[p].base_size))]

\* ArtifactEstimatorProject.annotate_artifact(annotated_peaks, locus_id):
\* the estimate of the estimator of the locus for each peak.
annotate_artifact(artifact_estimator, peaks, locus_id) ==
    [p \in 1..Len(peaks) |->
        [peaks[p] EXCEPT
            !.artifact_contribution = artifact_estimator.contribution,
            !.artifact_error = artifact_estimator.sd]]

\* Project.recalculate_channel, lines 270-288: the peaks of a channel of a
\* sized well are scanned and filtered anew.
recalculated_channel(project, sized, channel_id) ==
    [project EXCEPT !.channel_annotations =
        [k \in 1..Len(@) |->
            IF @[k].channel_id = channel_id /\ sized[channel_id]
            THEN [@[k] EXCEPT !.annotated_peaks = FilteredPeaks(channel_id)]
            ELSE @[k]]]

\* annotate_channel, lines 1018-1027: the bin annotation of the peaks.
bin_annotated_channel(project, est, channel_id) ==
    [project EXCEPT !.channel_annotations =
        [k \in 1..Len(@) |->
            IF @[k].channel_id = channel_id
            THEN [@[k] EXCEPT !.annotated_peaks =
                     annotate_bins(est, unbinned(@),
                                   SampleChannels[channel_id].locus_id)]
            ELSE @[k]]]

\* annotate_channel, lines 1028-1034: the artifact annotation of the peaks.
artifact_annotated_channel(project, artifact_estimator, channel_id) ==
    [project EXCEPT !.channel_annotations =
        [k \in 1..Len(@) |->
            IF @[k].channel_id = channel_id
            THEN [@[k] EXCEPT !.annotated_peaks =
                     annotate_artifact(artifact_estimator, without_artifact(@),
                                       SampleChannels[channel_id].locus_id)]
            ELSE @[k]]]

\* get_best_run, lines 1305-1307: the channel annotations of the sample at
\* the locus, as rows of the project.
RunRows(project, sample_id, locus_id) ==
    SortedSeq({k \in 1..Len(project.channel_annotations) :
        /\ SampleChannels[project.channel_annotations[k].channel_id].sample_id
              = sample_id
        /\ SampleChannels[project.channel_annotations[k].channel_id].locus_id
              = locus_id})

\* The runs at the rows: a well that was never sized keeps the default
\* sizing_quality.
RunsAt(project, sized, rows) ==
    [i \in 1..Len(rows) |->
        [sizing_quality |->
            IF sized[project.channel_annotations[rows[i]].channel_id]
            THEN 5 ELSE DefaultSizingQuality,
         unusable_sq_limit |-> DefaultUnusableSqLimit,
         annotated_peaks |-> project.channel_annotations[rows[i]].annotated_peaks]]

\* analyze_samples for one sample-locus annotation whose runs are at rows.
sample_calls(locus_annotation, project, rows, runs, run) ==
    IF run = 0
    THEN [locus_annotation EXCEPT !.reference_run_id = 0,
                                  !.annotated_peaks = << >>]
    ELSE [locus_annotation EXCEPT
             !.reference_run_id = project.channel_annotations[rows[run]].channel_id,
             !.annotated_peaks = flagged_peaks(runs[run].annotated_peaks,
                                               GenotypingParams),
             !.flags =
                 [failure |->
                     sample_failure(runs[run].annotated_peaks, GenotypingParams),
                  offscale |->
                     sample_offscale(runs[run].annotated_peaks, GenotypingParams),
                  manual_curation |-> FALSE],
             !.alleles =
                 called_alleles(@,
                     sample_failure(runs[run].annotated_peaks, GenotypingParams),
                     called_bins(flagged_peaks(runs[run].annotated_peaks,
                                               GenotypingParams)))]

samples_analyzed_at(locus_annotation, project, sized, rows) ==
    sample_calls(locus_annotation, project, rows, RunsAt(project, sized, rows),
                 get_best_run(RunsAt(project, sized, rows)))

\* GenotypingProject.analyze_samples(locus_id) on the rows of the project.
samples_analyzed(project, sized, locus_id) ==
    [project EXCEPT !.locus_annotations =
        [k \in 1..Len(@) |->
            IF @[k].locus_id = locus_id
            THEN samples_analyzed_at(@[k], project, sized,
                                     RunRows(project, @[k].sample_id, locus_id))
            ELSE @[k]]]

\* recalculate_locus, lines 330-331.
stale_cleared(project, locus_id) ==
    [project EXCEPT !.stale[locus_id] =
        [scanning_parameters_stale |-> FALSE,
         filter_parameters_stale |-> FALSE]]

\* add_channels, lines 237-242.
stale_marked(project, channel_id) ==
    [project EXCEPT !.stale[SampleChannels[channel_id].locus_id] =
        [scanning_parameters_stale |-> TRUE,
         filter_parameters_stale |-> TRUE]]

\* bulk_create_channel_annotations, lines 262-264, for one channel.
annotation_created(project, channel_id) ==
    [project EXCEPT !.channel_annotations =
        Append(@, [channel_id |-> channel_id, annotated_peaks |-> << >>])]

\* add_sample, lines 411-412.
sample_annotation_created(project, sample_id) ==
    [project EXCEPT !.sample_annotations = Append(@, sample_id)]

\* GenotypingProject.add_sample, lines 1088-1092, for one locus.
locus_annotation_seeded(project, est, sample_id, locus_id) ==
    [project EXCEPT !.locus_annotations =
        Append(@, [sample_id |-> sample_id, locus_id |-> locus_id,
                   alleles |-> seeded_alleles(bin_ids(est, 1, locus_id)),
                   annotated_peaks |-> << >>, reference_run_id |-> 0,
                   flags |-> [failure |-> FALSE, offscale |-> FALSE,
                              manual_curation |-> FALSE]])]

\* The artifact estimator project when it has no LocusArtifactEstimator of
\* the locus: calculate_locus_artifact_estimator makes one only of
\* annotations that qualify (lines 720-725).
NoLocusArtifactEstimator == [contribution |-> 0, sd |-> 0, locus_id |-> 0]

\* annotate_bins, line 517: next(...) finds a LocusBinSet of the locus.
locus_bin_set_found(est, locus_id) ==
    \E k \in 1..Len(est.locus_bin_sets) :
       est.locus_bin_sets[k].locus_id = locus_id

\* The annotation of the channel holds a peak.
has_peaks(project, channel_id) ==
    \E k \in 1..Len(project.channel_annotations) :
       /\ project.channel_annotations[k].channel_id = channel_id
       /\ project.channel_annotations[k].annotated_peaks # << >>

\* The step raises StopIteration: next(...) on a generator that yields
\* nothing, in annotate_bins (line 517, reached from annotate_channel when
\* the annotation holds a peak, line 1018, and from
\* ArtifactEstimatorProject.add_channel in any case, line 643) and in
\* annotate_artifact (lines 736-742, when the annotation holds a peak).
raises(s, step) ==
    CASE step.step = "annotate_bins" ->
            /\ has_peaks(s.project, step.channel_id)
            /\ ~locus_bin_set_found(s.bin_estimator,
                                    SampleChannels[step.channel_id].locus_id)
      [] step.step = "annotate_bins_of_added" ->
            ~locus_bin_set_found(s.bin_estimator,
                                 SampleChannels[step.channel_id].locus_id)
      [] step.step = "annotate_artifact" ->
            /\ has_peaks(s.project, step.channel_id)
            /\ s.artifact_estimator = NoLocusArtifactEstimator
      [] OTHER -> FALSE

\* The rows when the step raised: annotate_channel has reset the fields of
\* the peaks (lines 1020-1023, 1029-1031) before the call that raises.
project_raised(s, step) ==
    [s.project EXCEPT !.channel_annotations =
        [k \in 1..Len(@) |->
            IF @[k].channel_id # step.channel_id THEN @[k]
            ELSE IF step.step = "annotate_bins"
                 THEN [@[k] EXCEPT !.annotated_peaks = unbinned(@)]
            ELSE IF step.step = "annotate_artifact"
                 THEN [@[k] EXCEPT !.annotated_peaks = without_artifact(@)]
            ELSE @[k]]]

\* What a step does to the project.
project_after(s, step) ==
    CASE step.step = "recalculate_channel" ->
            recalculated_channel(s.project, s.sized, step.channel_id)
      [] step.step = "annotate_bins" ->
            bin_annotated_channel(s.project, s.bin_estimator, step.channel_id)
      [] step.step = "annotate_artifact" ->
            artifact_annotated_channel(s.project, s.artifact_estimator,
                                       step.channel_id)
      [] step.step = "clear_stale" -> stale_cleared(s.project, s.locus_id)
      [] step.step = "analyze_samples" ->
            samples_analyzed(s.project, s.sized, s.locus_id)
      [] step.step = "mark_stale" -> stale_marked(s.project, step.channel_id)
      [] step.step = "create_annotation" ->
            annotation_created(s.project, step.channel_id)
      [] step.step = "create_sample_annotation" ->
            sample_annotation_created(s.project, step.sample_id)
      [] step.step = "seed_locus_annotation" ->
            locus_annotation_seeded(s.project, s.bin_estimator,
                                    step.sample_id, step.locus_id)
      [] OTHER -> s.project

\* The channels of the annotations of the project at the locus, in the
\* order of their rows.
LocusChannelIds(project, locus_id) ==
    [i \in 1..Len(SortedSeq({k \in 1..Len(project.channel_annotations) :
                    SampleChannels[project.channel_annotations[k].channel_id].locus_id
                       = locus_id})) |->
        project.channel_annotations[
            SortedSeq({k \in 1..Len(project.channel_annotations) :
                    SampleChannels[project.channel_annotations[k].channel_id].locus_id
                       = locus_id})[i]].channel_id]

\* A call starts: the steps of its code are laid out.
Called(op, block_commit, steps) ==
    /\ session.pc = "ready"
    /\ session' = [session EXCEPT !.pc = "running", !.op = op,
                                  !.block_commit = block_commit,
                                  !.todo = steps]
    /\ UNCHANGED <<gl, running, channel, race, projectVars, loop, estimator, samples, best,
                   genotyping, artifact>>

\* project.analyze_locus(locus_id, block_commit)
CallAnalyzeLocus(block_commit) ==
    Called("analyze_locus", block_commit,
           analyze_locus_steps(session.kind,
               session.project.stale[session.locus_id],
               LocusChannelIds(session.project, session.locus_id),
               block_commit))

\* project.recalculate_locus(locus_id, block_commit)
CallRecalculateLocus(block_commit) ==
    Called("recalculate_locus", block_commit,
           recalculate_locus_steps(session.kind,
               session.project.stale[session.locus_id],
               LocusChannelIds(session.project, session.locus_id),
               block_commit))

\* project.recalculate_channels(channel_annotation_ids, rescan_peaks,
\* block_commit) for the annotations at the locus
CallRecalculateChannels(block_commit) ==
    Called("recalculate_channels", block_commit,
           recalculate_channels_steps(session.kind,
               LocusChannelIds(session.project, session.locus_id),
               block_commit))

\* project.add_channels(channel_ids, block_commit) for the channels the
\* project does not hold
CallAddChannels(block_commit) ==
    /\ Len(session.project.channel_annotations) = 1
    /\ Called("add_channels", block_commit,
              add_channels_steps(session.kind, <<1, 4>>, block_commit))

\* project.add_sample(sample_id, block_commit) of a genotyping project for
\* a sample it does not hold
CallAddSample(sample_id, block_commit) ==
    /\ session.kind = "genotyping_project"
    /\ \A i \in 1..Len(session.project.sample_annotations) :
          session.project.sample_annotations[i] # sample_id
    /\ Called("add_sample", block_commit,
              add_sample_steps(session.kind, sample_id,
                  SortedSeq({c \in 1..Len(SampleChannels) :
                      /\ SampleChannels[c].sample_id = sample_id
                      /\ SampleChannels[c].locus_id \in ProjectLoci}),
                  SortedSeq(ProjectLoci), block_commit))

\* The next step of the call is run.  A step that changes a row stages the
\* change in the session; a commit leaves nothing staged; a step that
\* raises ends the call.
RunStep ==
    /\ session.pc = "running"
    /\ session.todo # << >>
    /\ session' =
          IF raises(session, Head(session.todo))
          THEN [session EXCEPT
                   !.pc = "raised",
                   !.exc = "StopIteration",
                   !.project = project_raised(session, Head(session.todo)),
                   !.staged =
                       \/ @
                       \/ project_raised(session, Head(session.todo))
                             # session.project]
          ELSE [session EXCEPT
                   !.project = project_after(session, Head(session.todo)),
                   !.staged =
                       /\ Head(session.todo).step # "commit"
                       /\ \/ @
                          \/ project_after(session, Head(session.todo))
                                # session.project,
                   !.commits = IF Head(session.todo).step = "commit"
                               THEN @ + 1 ELSE @,
                   !.done = Append(@, Head(session.todo)),
                   !.todo = Tail(@)]
    /\ UNCHANGED <<gl, running, channel, race, projectVars, loop, estimator, samples, best,
                   genotyping, artifact>>

\* The call returns.
Return ==
    /\ session.pc = "running"
    /\ session.todo = << >>
    /\ session' = [session EXCEPT !.pc = "done"]
    /\ UNCHANGED <<gl, running, channel, race, projectVars, loop, estimator, samples, best,
                   genotyping, artifact>>

\* The artifact estimator of locus 2 the project was analysed with, and the
\* one fitted since.
ArtifactEstimators ==
    [analysed |-> [contribution |-> 5, sd |-> 1],
     refitted |-> [contribution |-> 20, sd |-> 2]]

\* The rows of a project that holds the channels and has none analysed.
HeldProject(k, channel_ids, sized, stale) ==
    [channel_annotations |->
        [i \in 1..Len(channel_ids) |->
            [channel_id |-> channel_ids[i],
             annotated_peaks |->
                IF ~sized[channel_ids[i]] THEN << >>
                ELSE IF k = "genotyping_project"
                     THEN annotate_artifact(ArtifactEstimators.analysed,
                              annotate_bins(AnalyzedEstimator,
                                  FilteredPeaks(channel_ids[i]),
                                  SampleChannels[channel_ids[i]].locus_id),
                              SampleChannels[channel_ids[i]].locus_id)
                     ELSE FilteredPeaks(channel_ids[i])]],
     sample_annotations |-> IF k = "genotyping_project" THEN <<1, 2>> ELSE << >>,
     locus_annotations |->
        IF k = "genotyping_project"
        THEN [i \in 1..4 |->
                [sample_id |-> (i + 1) \div 2, locus_id |-> 2 - (i % 2),
                 alleles |-> seeded_alleles(bin_ids(AnalyzedEstimator, 1,
                                                    2 - (i % 2))),
                 annotated_peaks |-> << >>, reference_run_id |-> 0,
                 flags |-> [failure |-> FALSE, offscale |-> FALSE,
                            manual_curation |-> FALSE]]]
        ELSE << >>,
     stale |-> [l \in ProjectLoci |-> IF l = 2 THEN stale
                                      ELSE [scanning_parameters_stale |-> FALSE,
                                            filter_parameters_stale |-> FALSE]],
     result |-> "ok"]

\* The project with its samples called at both loci.
AnalysedProject(k, channel_ids, sized, stale) ==
    IF k = "genotyping_project"
    THEN samples_analyzed(
             samples_analyzed(HeldProject(k, channel_ids, sized, stale), sized, 1),
             sized, 2)
    ELSE HeldProject(k, channel_ids, sized, stale)

\* The project after the change upstream, if any, has reached it at locus 2.
CascadedProject(project, upstream) ==
    CASE upstream = "bin_estimator" ->
            bin_estimator_changed(1, project,
                calculate_locus_bin_set(AnalyzedEstimator, 2), 2)
      [] upstream = "artifact_estimator" ->
            artifact_estimator_changed(1, project, AnalyzedEstimator, 2)
      [] OTHER -> project

InitSession ==
    /\ InitGateway
    /\ QuietProject
    /\ loop = [pc |-> "idle"]
    /\ estimator = [pc |-> "idle"]
    /\ samples = [pc |-> "idle"]
    /\ best = [pc |-> "idle"]
    /\ genotyping = [pc |-> "idle"]
    /\ artifact = [pc |-> "idle"]
    /\ channel = [pc |-> "idle"]
    /\ race = [pc |-> "idle"]
    /\ \E k \in {"project", "genotyping_project"},
          sized \in {f \in [{1, 2, 4} -> BOOLEAN] : f[1]},
          channel_ids \in {<<2>>, <<1, 2, 4>>},
          stale \in [scanning_parameters_stale : BOOLEAN,
                     filter_parameters_stale : BOOLEAN],
          upstream \in {"none", "bin_estimator", "artifact_estimator"} :
          /\ upstream # "none" => k = "genotyping_project"
          /\ session =
                [pc |-> "ready", kind |-> k, locus_id |-> 2, sized |-> sized,
                 upstream |-> upstream,
                 bin_estimator |->
                    IF upstream = "bin_estimator"
                    THEN calculate_locus_bin_set(AnalyzedEstimator, 2)
                    ELSE AnalyzedEstimator,
                 artifact_estimator |->
                    IF upstream = "artifact_estimator"
                    THEN ArtifactEstimators.refitted
                    ELSE ArtifactEstimators.analysed,
                 project |->
                    CascadedProject(AnalysedProject(k, channel_ids, sized, stale),
                                    upstream),
                 op |-> "none", block_commit |-> FALSE,
                 todo |-> << >>, done |-> << >>, commits |-> 0,
                 staged |-> FALSE, channel_id |-> 0, exc |-> "none"]

NextSession ==
    \/ \E block_commit \in BOOLEAN : CallAnalyzeLocus(block_commit)
    \/ \E block_commit \in BOOLEAN : CallRecalculateLocus(block_commit)
    \/ \E block_commit \in BOOLEAN : CallRecalculateChannels(block_commit)
    \/ \E block_commit \in BOOLEAN : CallAddChannels(block_commit)
    \/ \E block_commit \in BOOLEAN : CallAddSample(3, block_commit)
    \/ RunStep
    \/ Return

SpecSession == InitSession /\ [][NextSession]_vars

\* C29: recalculate_locus, recalculate_channels and add_channels commit
\* once and only at their outermost level: no commit at all when called
\* with block_commit=true, exactly one with block_commit=false, for any
\* number of channels and in both branches of recalculate_locus.
C29_OneCommitAtOutermostLevel ==
    (/\ session.pc = "done"
     /\ session.op \in {"recalculate_locus", "recalculate_channels",
                        "add_channels"})
        => session.commits = IF session.block_commit THEN 0 ELSE 1

\* The channels of sized wells the project holds at the locus of the call.
SizedAtLocus ==
    {session.project.channel_annotations[k].channel_id :
        k \in {j \in 1..Len(session.project.channel_annotations) :
                  /\ SampleChannels[session.project.channel_annotations[j].channel_id].locus_id
                        = session.locus_id
                  /\ session.sized[session.project.channel_annotations[j].channel_id]}}

\* Before step i the channel was recalculated, then annotated with bins,
\* then with artifact estimates.
ReannotatedBefore(channel_id, i) ==
    \E r, b, a \in 1..Len(session.done) :
       /\ r < b /\ b < a /\ a < i
       /\ session.done[r] = Step("recalculate_channel", channel_id)
       /\ session.done[b] = Step("annotate_bins", channel_id)
       /\ session.done[a] = Step("annotate_artifact", channel_id)

\* The peaks carry the bins of the current bin set and the estimates of the
\* current artifact estimator.
CurrentlyAnnotated(peaks) ==
    \A p \in 1..Len(peaks) :
       /\ peaks[p].in_bin
             <=> \E b \in bin_ids(session.bin_estimator, 1, session.locus_id) :
                    peaks[p].bin_id = b
       /\ peaks[p].artifact_contribution = session.artifact_estimator.contribution
       /\ peaks[p].artifact_error = session.artifact_estimator.sd

\* C30: after a change of the bin or artifact estimator has reached a
\* genotyping project at locus L, analyze_locus(L) recalculates every channel
\* annotation at L of a sized well and annotates it with bins, then with
\* artifact estimates, from the current estimators, before it clears the
\* staleness flags and before it derives the sample-level calls.
C30_ReannotatedBeforeSampleCalls ==
    (session.op = "analyze_locus" /\ session.upstream # "none")
        => /\ \A i \in 1..Len(session.done) :
                 session.done[i].step \in {"clear_stale", "analyze_samples"}
                    => \A c \in SizedAtLocus : ReannotatedBefore(c, i)
           /\ session.pc = "done"
                 => /\ \E i \in 1..Len(session.done) :
                          session.done[i].step = "analyze_samples"
                    /\ ~session.project.stale[session.locus_id].scanning_parameters_stale
                    /\ ~session.project.stale[session.locus_id].filter_parameters_stale
                    /\ \A k \in 1..Len(session.project.channel_annotations) :
                          session.project.channel_annotations[k].channel_id
                             \in SizedAtLocus
                             => /\ session.project.channel_annotations[k].annotated_peaks
                                      # << >>
                                /\ CurrentlyAnnotated(
                                      session.project.channel_annotations[k].annotated_peaks)
                    /\ \A k \in 1..Len(session.project.locus_annotations) :
                          session.project.locus_annotations[k].locus_id
                             = session.locus_id
                             => CurrentlyAnnotated(
                                   session.project.locus_annotations[k].annotated_peaks)

\* A refitted bin set reached the project; analyze_locus has returned and
\* both samples are called at the bin made by the refit.
C30_Witness ==
    /\ session.pc = "done"
    /\ session.op = "analyze_locus"
    /\ session.upstream = "bin_estimator"
    /\ SizedAtLocus = {2, 4}
    /\ \A k \in 1..Len(session.project.locus_annotations) :
          session.project.locus_annotations[k].locus_id = 2
             => /\ session.project.locus_annotations[k].reference_run_id # 0
                /\ session.project.locus_annotations[k].alleles["4"]

(***************************************************************************)
(* Channel.add_locus and Channel.find_max_data_point.  A sequence holds    *)
(* the value at Python index i at position i + 1; ladder_peak_indices      *)
(* holds positions.                                                        *)
(***************************************************************************)

\* The most assignments of a locus to one channel.
MaxAssignments == 2

\* well.base_sizes: the calibrated size at every scan position.
WellBaseSizes == [i \in 1..12 |-> 90 + 10 * i]

\* The loci a channel may be given, with their size windows.
WindowLoci ==
    <<[min_base_length |-> 115, max_base_length |-> 145],
      [min_base_length |-> 145, max_base_length |-> 185],
      [min_base_length |-> 125, max_base_length |-> 165]>>

\* The traces of a channel (channel.data).
ChannelData ==
    {<<0, 10, 20, 900, 30, 40, 50, 400, 60, 70, 20, 10>>,
     <<0, 10, 20, 100, 30, 40, 50, 400, 60, 70, 20, 10>>,
     <<0, 10, 20, 100, 30, 700, 50, 400, 60, 70, 20, 10>>,
     <<0, 10, 20, 100, 30, 40, 50, 400, 60, 800, 20, 10>>,
     <<0, 10, 20, 100, 250, 40, 50, 400, 60, 70, 20, 10>>,
     <<0, 10, 20, 100, 30, 40, 50, 40, 60, 70, 20, 10>>}

\* well.ladder_peak_indices: none for a well with no ladder, else sorted.
LadderPeakIndices == {<< >>, <<1, 5, 9, 12>>, <<2, 4, 6, 8, 10>>}

\* Lines 2005-2007: the first ladder peak whose size is not below
\* min_base_length, from j on; 0 when the list runs out (IndexError).
RECURSIVE first_ladder_peak(_, _, _)
first_ladder_peak(ladder, locus, j) ==
    IF j > Len(ladder) THEN 0
    ELSE IF WellBaseSizes[ladder[j]] < locus.min_base_length
         THEN first_ladder_peak(ladder, locus, j + 1)
         ELSE j

\* Line 2008: ladder_peak_indices[j - 1]; for the first peak Python reads
\* the last element of the list.
scan_start(ladder, j) ==
    IF j = 1 THEN ladder[Len(ladder)] ELSE ladder[j - 1]

\* Lines 2009-2013: the scan from position i with the cached value so far.
RECURSIVE scanned_max(_, _, _, _)
scanned_max(data, locus, i, max_data_point) ==
    IF WellBaseSizes[i] < locus.max_base_length
    THEN IF i + 1 > Len(WellBaseSizes)
         THEN [exc |-> "IndexError", max_data_point |-> max_data_point]
         ELSE scanned_max(data, locus, i + 1,
                  IF /\ WellBaseSizes[i + 1] > locus.min_base_length
                     /\ data[i + 1] > max_data_point
                  THEN data[i + 1] ELSE max_data_point)
    ELSE [exc |-> "none", max_data_point |-> max_data_point]

\* Lines 2002-2013: find_max_data_point for a channel with a locus.
find_max_data_point(ch, locus) ==
    IF ch.ladder_peak_indices = << >>
    THEN [exc |-> "none", max_data_point |-> ch.max_data_point]
    ELSE IF first_ladder_peak(ch.ladder_peak_indices, locus, 1) = 0
         THEN [exc |-> "IndexError", max_data_point |-> ch.max_data_point]
         ELSE scanned_max(ch.data, locus,
                  scan_start(ch.ladder_peak_indices,
                      first_ladder_peak(ch.ladder_peak_indices, locus, 1)),
                  ch.max_data_point)

\* Lines 1989-2000: Channel.add_locus(locus_id).
add_locus(ch, locus_id) ==
    [ch EXCEPT
        !.pc = "assigned",
        !.locus_id = locus_id,
        !.assignments = @ + 1,
        !.exc = find_max_data_point(ch, WindowLoci[locus_id]).exc,
        !.max_data_point =
            find_max_data_point(ch, WindowLoci[locus_id]).max_data_point]

AddLocus(locus_id) ==
    /\ channel.pc \in {"new", "assigned"}
    /\ channel.exc = "none"
    /\ channel.assignments < MaxAssignments
    /\ channel' = add_locus(channel, locus_id)
    /\ UNCHANGED <<gl, running, projectVars, loop, estimator, samples, best,
                   genotyping, artifact, session, race>>

\* A channel as the plate import leaves it: no locus, max_data_point 0.
InitChannel ==
    /\ InitGateway
    /\ QuietProject
    /\ loop = [pc |-> "idle"]
    /\ estimator = [pc |-> "idle"]
    /\ samples = [pc |-> "idle"]
    /\ best = [pc |-> "idle"]
    /\ genotyping = [pc |-> "idle"]
    /\ artifact = [pc |-> "idle"]
    /\ session = [pc |-> "idle"]
    /\ race = [pc |-> "idle"]
    /\ \E data \in ChannelData, ladder \in LadderPeakIndices :
          channel = [pc |-> "new", data |-> data,
                     ladder_peak_indices |-> ladder, locus_id |-> 0,
                     assignments |-> 0, max_data_point |-> 0, exc |-> "none"]

NextChannel == \E locus_id \in 1..Len(WindowLoci) : AddLocus(locus_id)

SpecChannel == InitChannel /\ [][NextChannel]_vars

\* The largest trace value at a position whose size is inside the window
\* of the locus, 0 when there is none.
WindowMax(data, locus) ==
    MaxOf({0} \cup
          {data[i] : i \in {k \in 1..Len(data) :
                              /\ WellBaseSizes[k] > locus.min_base_length
                              /\ WellBaseSizes[k] < locus.max_base_length}})

\* C32: after Channel.add_locus(L), max_data_point is the largest trace
\* value over the scan positions whose calibrated size lies inside the
\* window of L, also when the channel had another locus before or a larger
\* cached max_data_point.
C32_MaxDataPointOfWindow ==
    (/\ channel.pc = "assigned"
     /\ channel.exc = "none"
     /\ channel.ladder_peak_indices # << >>)
        => channel.max_data_point
              = WindowMax(channel.data, WindowLoci[channel.locus_id])

(***************************************************************************)
(* The staleness flags of a genotyping project over the additions of       *)
(* samples and channels, the updates of its parameters and                 *)
(* recalculate_locus.  samples.fresh holds, for each project, the channels *)
(* whose annotation was recalculated since its row was made and since the  *)
(* parameters of its locus were last changed.                              *)
(***************************************************************************)

\* The wells of the channels of the samples that are sized.
SampleWellSized == [c \in 1..Len(SampleChannels) |-> WellSized(c)]

\* GenotypingProject.recalculate_channel for every channel of the list:
\* recalculate, annotate bins, annotate artifact.
RECURSIVE each_recalculated(_, _, _)
each_recalculated(project, est, channel_ids) ==
    IF channel_ids = << >> THEN project
    ELSE each_recalculated(
             IF SampleWellSized[Head(channel_ids)]
             THEN artifact_annotated_channel(
                      bin_annotated_channel(
                          recalculated_channel(project, SampleWellSized,
                                               Head(channel_ids)),
                          est, Head(channel_ids)),
                      ArtifactEstimators.analysed, Head(channel_ids))
             ELSE project,
             est, Tail(channel_ids))

\* Project.recalculate_locus(locus_id), lines 311-336.
recalculate_locus(project, est, locus_id) ==
    stale_cleared(
        IF \/ project.stale[locus_id].scanning_parameters_stale
           \/ project.stale[locus_id].filter_parameters_stale
        THEN each_recalculated(project, est, LocusChannelIds(project, locus_id))
        ELSE project,
        locus_id)

\* The channels recalculate_locus recalculated.
recalculated_at(project, locus_id) ==
    IF \/ project.stale[locus_id].scanning_parameters_stale
       \/ project.stale[locus_id].filter_parameters_stale
    THEN {project.channel_annotations[k].channel_id :
             k \in {j \in 1..Len(project.channel_annotations) :
                       /\ SampleChannels[project.channel_annotations[j].channel_id].locus_id
                             = locus_id
                       /\ SampleWellSized[project.channel_annotations[j].channel_id]}}
    ELSE {}

\* project.recalculate_locus(locus_id)
StaleRecalculateLocus(g, locus_id) ==
    /\ locus_id \in locus_set(g)
    /\ samples' = [samples EXCEPT
          !.projects[g] = recalculate_locus(@, estimator, locus_id),
          !.fresh[g] = @ \cup recalculated_at(samples.projects[g], locus_id),
          !.last = [SampleRequest("recalculate_locus", g, << >>) EXCEPT
                       !.l = locus_id]]
    /\ UNCHANGED <<gl, running, projectVars, loop, estimator, best, genotyping,
                   artifact, session, channel, race>>

\* The row of the parameters of the locus with the flags of the project.
params_row(project, locus_id) ==
    [NewLocusParams(locus_id) EXCEPT
        !.scanning_parameters_stale =
            project.stale[locus_id].scanning_parameters_stale,
        !.filter_parameters_stale =
            project.stale[locus_id].filter_parameters_stale]

\* The row with a filter parameter or a scanning parameter changed.
changed_row(row, changed) ==
    IF changed = "filter"
    THEN [row EXCEPT !.min_peak_height = @ + 50]
    ELSE [row EXCEPT !.maxima_window = @ + 1]

\* The flush of an update of a parameter of the locus: the listener of
\* lines 1398-1414 marks the flag of the kind of the parameter.
params_updated(project, locus_id, changed) ==
    [project EXCEPT !.stale[locus_id] =
        [scanning_parameters_stale |->
            stale_parameters(params_row(project, locus_id),
                changed_row(params_row(project, locus_id), changed)
                ).scanning_parameters_stale,
         filter_parameters_stale |->
            stale_parameters(params_row(project, locus_id),
                changed_row(params_row(project, locus_id), changed)
                ).filter_parameters_stale]]

\* An update of a parameter of the locus is committed.
StaleUpdateParams(g, locus_id, changed) ==
    /\ locus_id \in locus_set(g)
    /\ samples' = [samples EXCEPT
          !.projects[g] = params_updated(@, locus_id, changed),
          !.fresh[g] = {c \in @ : SampleChannels[c].locus_id # locus_id},
          !.last = [SampleRequest("update_params", g, << >>) EXCEPT
                       !.l = locus_id]]
    /\ UNCHANGED <<gl, running, projectVars, loop, estimator, best, genotyping,
                   artifact, session, channel, race>>

\* project.add_channels(channel_ids) for channels the project does not hold
\* yet; add_channel(channel_id) is the call with one channel.
StaleAddChannels(g, channel_ids) ==
    /\ \A k \in 1..Len(channel_ids) :
          /\ SampleChannels[channel_ids[k]].locus_id \in locus_set(g)
          /\ \A j \in 1..Len(samples.projects[g].channel_annotations) :
                samples.projects[g].channel_annotations[j].channel_id
                   # channel_ids[k]
    /\ \A j, k \in 1..Len(channel_ids) : j # k => channel_ids[j] # channel_ids[k]
    /\ samples' = [samples EXCEPT
          !.projects[g] =
              add_channels(@, [k \in 1..Len(channel_ids) |->
                                  ToString(channel_ids[k])]),
          !.last = SampleRequest("add_channels", g, channel_ids)]
    /\ UNCHANGED <<gl, running, projectVars, loop, estimator, best, genotyping,
                   artifact, session, channel, race>>

\* The first genotyping project as it is made: the flags of its loci have
\* the column default, True.
InitStale ==
    /\ InitGateway
    /\ QuietProject
    /\ session = [pc |-> "idle"]
    /\ channel = [pc |-> "idle"]
    /\ race = [pc |-> "idle"]
    /\ genotyping = [pc |-> "idle"]
    /\ artifact = [pc |-> "idle"]
    /\ loop = [pc |-> "idle"]
    /\ best = [pc |-> "idle"]
    /\ estimator = AnalyzedEstimator
    /\ samples = [projects |-> [g \in GenotypingProjects |->
                                   NewGenotypingProject(g, TRUE)],
                  fresh |-> [g \in GenotypingProjects |-> {}],
                  last |-> SampleRequest("none", 0, << >>)]

NextStale ==
    \/ \E s \in Samples : AddSample(1, s)
    \/ \E sample_ids \in SampleBatches : AddSamples(1, sample_ids)
    \/ \E channel_ids \in {<<1>>, <<2>>, <<4>>, <<2, 4>>} :
          StaleAddChannels(1, channel_ids)
    \/ \E locus_id \in ProjectLoci, changed \in {"filter", "scanning"} :
          StaleUpdateParams(1, locus_id, changed)
    \/ \E locus_id \in ProjectLoci : StaleRecalculateLocus(1, locus_id)

SpecStale == InitStale /\ [][NextStale]_vars

\* C34: the staleness flags are sound: in every state reached by add_channel,
\* add_channels, add_sample, add_samples, updates of parameters and
\* recalculate_locus, if both flags of a locus of a project are false then
\* every channel annotation of the project at the locus whose well is sized
\* was recalculated since it was added and since the last change of the
\* parameters.
C34_StalenessFlagsSound ==
    \A locus_id \in locus_set(1) :
       (/\ ~samples.projects[1].stale[locus_id].scanning_parameters_stale
        /\ ~samples.projects[1].stale[locus_id].filter_parameters_stale)
          => \A k \in 1..Len(samples.projects[1].channel_annotations) :
                (/\ SampleChannels[samples.projects[1].channel_annotations[k].channel_id].locus_id
                       = locus_id
                 /\ WellSized(samples.projects[1].channel_annotations[k].channel_id))
                   => samples.projects[1].channel_annotations[k].channel_id
                         \in samples.fresh[1]

(***************************************************************************)
(* analyze_samples called again after the wells of a sample were sized     *)
(* anew.                                                                   *)
(***************************************************************************)

\* Well.calculate_base_sizes, lines 1874-1887: the well of a run of the
\* annotation at k is sized again and gets the sizing quality the ladder
\* fit gives it.
CalculateBaseSizes(k, run, sizing_quality) ==
    /\ genotyping.pc = "analyzed"
    /\ run \in 1..Len(genotyping.locus_annotations[k].runs)
    /\ genotyping.locus_annotations[k].runs[run].sizing_quality # sizing_quality
    /\ genotyping' =
          [genotyping EXCEPT
              !.pc = "stale",
              !.locus_annotations[k].runs[run].sizing_quality = sizing_quality]
    /\ UNCHANGED <<gl, running, projectVars, loop, estimator, samples, best,
                   artifact, session, channel, race>>

\* Sample 1 at locus 1 as add_sample seeds it: no allele called, no
\* reference run; its runs are usable or not.
InitReanalyze ==
    /\ InitGateway
    /\ QuietProject
    /\ session = [pc |-> "idle"]
    /\ channel = [pc |-> "idle"]
    /\ race = [pc |-> "idle"]
    /\ loop = [pc |-> "idle"]
    /\ estimator = [pc |-> "idle"]
    /\ samples = [pc |-> "idle"]
    /\ best = [pc |-> "idle"]
    /\ artifact = [pc |-> "idle"]
    /\ \E runs \in UNION {[1..n -> GenotypedRuns] : n \in 0..MaxRuns - 1} :
          genotyping =
             [pc |-> "stale", locus_id |-> 1,
              locus_annotations |->
                 <<LocusAnnotation(1, 1, runs, [b \in {"1", "2"} |-> FALSE],
                                   FALSE)>>]

NextReanalyze ==
    \/ AnalyzeSamples
    \/ \E run \in 1..MaxRuns, sizing_quality \in {5, DefaultSizingQuality} :
          CalculateBaseSizes(1, run, sizing_quality)

SpecReanalyze == InitReanalyze /\ [][NextReanalyze]_vars

\* The annotations of the analysed locus none of whose runs is of a well
\* sized well enough.
WithoutUsableRun ==
    {k \in 1..Len(genotyping.locus_annotations) :
        /\ genotyping.locus_annotations[k].locus_id = genotyping.locus_id
        /\ \A r \in 1..Len(genotyping.locus_annotations[k].runs) :
              genotyping.locus_annotations[k].runs[r].sizing_quality
                 >= genotyping.locus_annotations[k].runs[r].unusable_sq_limit}

\* C35: after analyze_samples(L), a sample-locus annotation for which
\* get_best_run finds no usable run has no allele called: its reference run
\* is null, its annotated_peaks are empty and every value of its alleles map
\* is false, also when an earlier analysis had called alleles for it.
C35_NoRunNoAllele ==
    genotyping.pc = "analyzed"
        => \A k \in WithoutUsableRun :
              /\ genotyping.locus_annotations[k].reference_run = 0
              /\ genotyping.locus_annotations[k].annotated_peaks = << >>
              /\ \A b \in DOMAIN genotyping.locus_annotations[k].alleles :
                    ~genotyping.locus_annotations[k].alleles[b]


\* C37: a call with block_commit=false leaves nothing staged: when
\* analyze_locus or add_sample returns, every change the call made to the
\* rows of the project (flags, channel annotations, sample-level calls,
\* seeded locus annotations) has been committed.
C37_NothingStagedOnReturn ==
    (/\ session.pc = "done"
     /\ session.op \in {"analyze_locus", "add_sample"}
     /\ ~session.block_commit)
        => ~session.staged

(***************************************************************************)
(* Two requests on one locus of one project at the same time.  Each        *)
(* request has its own session: it loads the ProjectLocusParams row, and   *)
(* its commit writes the columns whose value it changed, in one UPDATE;    *)
(* nothing locks the row, so the later UPDATE of a column wins.  One       *)
(* request runs recalculate_locus, the other add_channel or a parameter    *)
(* update.                                                                 *)
(***************************************************************************)
StaleColumns == {"scanning_parameters_stale", "filter_parameters_stale"}

RaceOps == {"add_channel", "scanning_parameter", "filter_parameter"}

\* The flags a request sets: add_channel both (lines 206-207), the
\* before_update listener the flag of the kind of parameter that changed
\* (lines 1398-1414).
marked_columns(op) ==
    CASE op = "add_channel" -> StaleColumns
      [] op = "scanning_parameter" -> {"scanning_parameters_stale"}
      [] op = "filter_parameter" -> {"filter_parameters_stale"}

\* The columns an assignment of value changes in a session that loaded the
\* row as loaded; after a commit of the session the attributes are expired
\* and every assignment counts as a change.
changed_columns(loaded, columns, value, expired) ==
    {c \in columns : expired \/ loaded[c] # value}

\* The row after an UPDATE of the columns to value.
updated_row(row, columns, value) ==
    [c \in StaleColumns |-> IF c \in columns THEN value ELSE row[c]]

\* recalculate_locus, line 312: get_locus_parameters(locus_id)
RecalculateLoad ==
    /\ race.pc = "open"
    /\ race.recalculate.pc = "start"
    /\ race' = [race EXCEPT !.recalculate.pc = "loaded",
                            !.recalculate.loaded = race.row]
    /\ UNCHANGED <<gl, running, projectVars, loop, estimator, samples, best,
                   genotyping, artifact, session, channel>>

\* recalculate_locus, lines 321-328: the channels are recalculated as the
\* loaded flags say; the branch of the filter flag alone calls
\* recalculate_channels without block_commit, which commits and expires
\* the loaded row.
RecalculateChannels ==
    /\ race.pc = "open"
    /\ race.recalculate.pc = "loaded"
    /\ race' = [race EXCEPT
                   !.recalculate.pc = "recalculated",
                   !.recalculate.expired =
                       /\ ~race.recalculate.loaded["scanning_parameters_stale"]
                       /\ race.recalculate.loaded["filter_parameters_stale"]]
    /\ UNCHANGED <<gl, running, projectVars, loop, estimator, samples, best,
                   genotyping, artifact, session, channel>>

\* recalculate_locus, lines 330-331: both flags are assigned False.
RecalculateClear ==
    /\ race.pc = "open"
    /\ race.recalculate.pc = "recalculated"
    /\ race' = [race EXCEPT
                   !.recalculate.pc = "cleared",
                   !.recalculate.dirty =
                       changed_columns(race.recalculate.loaded, StaleColumns,
                                       FALSE, race.recalculate.expired)]
    /\ UNCHANGED <<gl, running, projectVars, loop, estimator, samples, best,
                   genotyping, artifact, session, channel>>

\* recalculate_locus, lines 333-334: db.session.commit()
RecalculateCommit ==
    /\ race.pc = "open"
    /\ race.recalculate.pc = "cleared"
    /\ race' = [race EXCEPT
                   !.recalculate.pc = "committed",
                   !.row = updated_row(@, race.recalculate.dirty, FALSE)]
    /\ UNCHANGED <<gl, running, projectVars, loop, estimator, samples, best,
                   genotyping, artifact, session, channel>>

\* add_channel, line 202, or the load of the row whose parameter is to be
\* updated.
MarkLoad ==
    /\ race.pc = "open"
    /\ race.mark.pc = "start"
    /\ race' = [race EXCEPT !.mark.pc = "loaded",
                            !.mark.loaded = race.row]
    /\ UNCHANGED <<gl, running, projectVars, loop, estimator, samples, best,
                   genotyping, artifact, session, channel>>

\* add_channel, lines 206-207, or the listener at the flush of the update:
\* the flags are assigned True.
MarkStale ==
    /\ race.pc = "open"
    /\ race.mark.pc = "loaded"
    /\ race' = [race EXCEPT
                   !.mark.pc = "marked",
                   !.mark.dirty =
                       changed_columns(race.mark.loaded,
                                       marked_columns(race.mark.op), TRUE,
                                       FALSE)]
    /\ UNCHANGED <<gl, running, projectVars, loop, estimator, samples, best,
                   genotyping, artifact, session, channel>>

\* add_channel, lines 208-209, or the commit of the update.  It is
\* recorded whether recalculate_locus had read the flags and not yet
\* assigned them.
MarkCommit ==
    /\ race.pc = "open"
    /\ race.mark.pc = "marked"
    /\ race' = [race EXCEPT
                   !.mark.pc = "committed",
                   !.mark.between =
                       race.recalculate.pc \in {"loaded", "recalculated"},
                   !.row = updated_row(@, race.mark.dirty, TRUE)]
    /\ UNCHANGED <<gl, running, projectVars, loop, estimator, samples, best,
                   genotyping, artifact, session, channel>>

\* The row has any flags: both true as created, both false after
\* recalculate_locus, one true after a parameter update.
InitRace ==
    /\ InitGateway
    /\ QuietProject
    /\ loop = [pc |-> "idle"]
    /\ estimator = [pc |-> "idle"]
    /\ samples = [pc |-> "idle"]
    /\ best = [pc |-> "idle"]
    /\ genotyping = [pc |-> "idle"]
    /\ artifact = [pc |-> "idle"]
    /\ session = [pc |-> "idle"]
    /\ channel = [pc |-> "idle"]
    /\ \E row \in [StaleColumns -> BOOLEAN], op \in RaceOps :
          race = [pc |-> "open", row |-> row,
                  recalculate |-> [pc |-> "start", loaded |-> row,
                                   expired |-> FALSE, dirty |-> {}],
                  mark |-> [pc |-> "start", op |-> op, loaded |-> row,
                            dirty |-> {}, between |-> FALSE]]

NextRace ==
    \/ RecalculateLoad
    \/ RecalculateChannels
    \/ RecalculateClear
    \/ RecalculateCommit
    \/ MarkLoad
    \/ MarkStale
    \/ MarkCommit

SpecRace == InitRace /\ [][NextRace]_vars

\* C36: when recalculate_locus(L) of one request has read the flags and
\* add_channel or a parameter update of another request marks L stale
\* before recalculate_locus clears them, the flags the second request set
\* are still true when both requests have finished.
C36_NoMarkLost ==
    (/\ race.pc = "open"
     /\ race.recalculate.pc = "committed"
     /\ race.mark.pc = "committed"
     /\ race.mark.between)
        => \A c \in marked_columns(race.mark.op) : race.row[c]


(***************************************************************************)
(* One channel recalculated or added when an estimator may have nothing    *)
(* for its locus: the bin estimator has no LocusBinSet of locus 2 after    *)
(* calculate_locus_bin_set found no peak there, the artifact estimator no  *)
(* LocusArtifactEstimator when no annotation qualified.                    *)
(***************************************************************************)

\* Project.add_channel(channel_id, block_commit), lines 202-213, for a
\* channel of a locus of the project.
Project_add_channel_steps(channel_id, block_commit) ==
    <<Step("create_annotation", channel_id), Step("mark_stale", channel_id)>>
        \o commit_unless(block_commit)

\* ArtifactEstimatorProject.add_channel(channel_id, block_commit), lines
\* 640-644: annotate_bins is called on the peaks of the new annotation.
add_channel_steps(channel_id, block_commit) ==
    Project_add_channel_steps(channel_id, block_commit)
        \o <<Step("annotate_bins_of_added", channel_id)>>

\* A call on one channel starts.
CalledOn(op, channel_id, block_commit, steps) ==
    /\ session.pc = "ready"
    /\ session' = [session EXCEPT !.pc = "running", !.op = op,
                                  !.channel_id = channel_id,
                                  !.block_commit = block_commit,
                                  !.todo = steps]
    /\ UNCHANGED <<gl, running, channel, race, projectVars, loop, estimator,
                   samples, best, genotyping, artifact>>

\* project.recalculate_channel(channel_annotation_id, rescan_peaks,
\* block_commit) of a genotyping project for a channel it holds
CallRecalculateChannel(channel_id, block_commit) ==
    /\ session.kind = "genotyping_project"
    /\ \E k \in 1..Len(session.project.channel_annotations) :
          session.project.channel_annotations[k].channel_id = channel_id
    /\ CalledOn("recalculate_channel", channel_id, block_commit,
                recalculate_channel_steps(session.kind, channel_id,
                                          block_commit))

\* project.add_channel(channel_id, block_commit) of an artifact estimator
\* project for a channel it does not hold
CallAddChannel(channel_id, block_commit) ==
    /\ session.kind = "artifact_estimator_project"
    /\ \A k \in 1..Len(session.project.channel_annotations) :
          session.project.channel_annotations[k].channel_id # channel_id
    /\ CalledOn("add_channel", channel_id, block_commit,
                add_channel_steps(channel_id, block_commit))

InitAnnotate ==
    /\ InitGateway
    /\ QuietProject
    /\ loop = [pc |-> "idle"]
    /\ estimator = [pc |-> "idle"]
    /\ samples = [pc |-> "idle"]
    /\ best = [pc |-> "idle"]
    /\ genotyping = [pc |-> "idle"]
    /\ artifact = [pc |-> "idle"]
    /\ channel = [pc |-> "idle"]
    /\ race = [pc |-> "idle"]
    /\ \E k \in {"genotyping_project", "artifact_estimator_project"},
          sized \in {f \in [{1, 2, 4} -> BOOLEAN] : f[1]},
          channel_ids \in {<<2>>, <<1, 2, 4>>},
          bin_estimator \in {AnalyzedEstimator,
                             delete_locus_bin_set(AnalyzedEstimator, 2)},
          artifact_estimator \in {ArtifactEstimators.analysed,
                                  NoLocusArtifactEstimator} :
          session =
             [pc |-> "ready", kind |-> k, locus_id |-> 2, sized |-> sized,
              upstream |-> "none",
              bin_estimator |-> bin_estimator,
              artifact_estimator |-> artifact_estimator,
              project |->
                 HeldProject(k, channel_ids, sized,
                             [scanning_parameters_stale |-> FALSE,
                              filter_parameters_stale |-> FALSE]),
              op |-> "none", block_commit |-> FALSE,
              todo |-> << >>, done |-> << >>, commits |-> 0,
              staged |-> FALSE, channel_id |-> 0, exc |-> "none"]

NextAnnotate ==
    \/ \E channel_id \in {1, 2, 4}, block_commit \in BOOLEAN :
          CallRecalculateChannel(channel_id, block_commit)
    \/ \E channel_id \in {1, 4}, block_commit \in BOOLEAN :
          CallAddChannel(channel_id, block_commit)
    \/ RunStep
    \/ Return

SpecAnnotate == InitAnnotate /\ [][NextAnnotate]_vars

\* The estimators the project refers to have something for the locus of
\* the channel of the call.
BinSetOfChannel ==
    \E k \in 1..Len(session.bin_estimator.locus_bin_sets) :
       session.bin_estimator.locus_bin_sets[k].locus_id
          = SampleChannels[session.channel_id].locus_id

ArtifactEstimatorOfChannel ==
    session.artifact_estimator # NoLocusArtifactEstimator

\* C40: when the bin estimator has no LocusBinSet, or the artifact estimator
\* no LocusArtifactEstimator, for the locus of the channel,
\* GenotypingProject.recalculate_channel and
\* ArtifactEstimatorProject.add_channel complete without error and the
\* peaks of the channel keep in_bin = false and artifact_contribution = 0.
C40_NoFaultWithoutEstimatorEntry ==
    (/\ session.op \in {"recalculate_channel", "add_channel"}
     /\ ~BinSetOfChannel \/ (session.op = "recalculate_channel"
                                /\ ~ArtifactEstimatorOfChannel))
        => /\ session.exc = "none"
           /\ session.pc = "done"
                 => \A k \in 1..Len(session.project.channel_annotations) :
                       session.project.channel_annotations[k].channel_id
                          = session.channel_id
                          => \A p \in 1..Len(session.project.channel_annotations[k].annotated_peaks) :
                                /\ ~BinSetOfChannel
                                      => ~session.project.channel_annotations[k].annotated_peaks[p].in_bin
                                /\ ~ArtifactEstimatorOfChannel
                                      => session.project.channel_annotations[k].annotated_peaks[p].artifact_contribution = 0

=============================================================================
